---- MODULE Spec2Model ----
(***************************************************************************)
(* Breach-evaluation engine of the MT5 account pipeline                    *)
(* (src/mongo_db.py, class MT5MongoDB).                                    *)
(*                                                                         *)
(* Money is an integer number of account units.  A loss limit or profit    *)
(* target is a whole number of percent, and every product                  *)
(* value * (1 - limit) is kept multiplied by Scale = 100, so that          *)
(* `equity < reference * (1 - limit)' is the exact integer comparison      *)
(* `equity * Scale < reference * (Scale - limitPct)'.                      *)
(* A timestamp is a whole number of ticks; a UTC day has TicksPerDay       *)
(* ticks, tick 0 of a day being its midnight.                              *)
(***************************************************************************)
EXTENDS Integers, Sequences, FiniteSets, TLC

VARIABLES
    pc,                  \* position of the modelled call: "call" or "done"
    arg_chart,               \* input: balance.chart, sequence of [x, y]
    arg_initial_balance,     \* input: summary.deposit[0]
    arg_program,             \* input: key of RULES the account falls under
    arg_current_balance,     \* input: balance.balance
    arg_current_equity,      \* input: balance.equity
    arg_profit_chart,        \* input: profitDaily.chart, sequence of y lists
    arg_max_inactivity_days, \* input of _check_inactivity_breach
    arg_account_name,        \* input: account.name
    arg_credential_key,      \* input: key of the credential group, or None
    program_result,          \* result of _infer_program
    grouped_result,          \* result of _group_chart_by_day
    profitable_days_result,  \* result of _count_profitable_days
    document,                \* result of transform_mt5_data
    raised,                  \* exception a call ended with, "" if none
    dd_result,               \* result of _check_daily_drawdown
    inactivity_result,       \* result of _check_inactivity_breach
    evaluation,              \* result of _evaluate_account
    dl_result,               \* result of _check_daily_loss_limit
    self_rules,              \* the RULES attribute the evaluation reads
    calls,                   \* evaluations made on the object so far
    fresh_evaluation,        \* the same input evaluated by a new object
    credentials,             \* the credentials collection, by login
    accounts,                \* main: ACCOUNTS, the logins fetched
    account_index,           \* main: position of the loop in ACCOUNTS
    results,                 \* main: results['success'], results['failed']
    connection,              \* main: "none", "open" or "closed"
    trail,                   \* what was done for each account, in order
    runs                     \* runs of main started so far

\* The inputs and results of the calls other than the evaluation's.
others == <<arg_account_name, arg_credential_key, program_result,
            grouped_result, profitable_days_result, document, raised>>

\* The state of a run of main (src/main.py) and of the collection it reads.
pipeline == <<credentials, accounts, account_index, results, connection, trail,
             runs>>

\* The state outside the single calls modelled first.
extras == <<dl_result, self_rules, calls, fresh_evaluation, pipeline>>

vars == <<pc, arg_chart, arg_initial_balance, arg_program,
          arg_current_balance, arg_current_equity, arg_profit_chart,
          arg_max_inactivity_days, dd_result, inactivity_result, evaluation,
          others, extras>>

---------------------------------------------------------------------------
(* Bounds of the model *)

MaxPoints == 3

MaxDays == 16

MaxActiveDays == 3

TicksPerDay == 2

Scale == 100

Timestamps == 0 .. 4

\* [balance, equity] pairs of a chart point.
YValues == { <<200, 190>>, <<200, 192>>, <<200, 208>>, <<0, 0>> }

Points == [x : Timestamps, y : YValues]

Charts == UNION { [1 .. n -> Points] : n \in 0 .. MaxPoints }

InitialBalances == {0, 200}

---------------------------------------------------------------------------
(* Python values *)

\* An optional number: None is the empty sequence, a value v is <<v>>.
None == <<>>

Some(v) == <<v>>

\* Python truthiness of an optional number: None and 0 are false.
Truthy(o) == o # None /\ o[1] # 0

Max2(a, b) == IF a >= b THEN a ELSE b

Min2(a, b) == IF a <= b THEN a ELSE b

Abs(a) == IF a < 0 THEN -a ELSE a

RECURSIVE MinOfSeq(_)
MinOfSeq(s) ==
    IF Len(s) = 1 THEN s[1] ELSE Min2(s[1], MinOfSeq(Tail(s)))

\* dict.update: the keys of g override those of f.
DictUpdate(f, g) ==
    [k \in DOMAIN f \cup DOMAIN g |-> IF k \in DOMAIN g THEN g[k] ELSE f[k]]

\* dict.get(key, default)
DictGet(f, k, default) == IF k \in DOMAIN f THEN f[k] ELSE default

---------------------------------------------------------------------------
(* Rule catalog *)

RULES ==
    [ TWO_STEP_PHASE_1 |->
        [profit_target |-> 8, max_loss_limit |-> 8, daily_loss_limit |-> 4,
         min_profitable_days |-> 3, max_inactivity_days |-> 14],
      TWO_STEP_PHASE_2 |->
        [profit_target |-> 5, max_loss_limit |-> 8, daily_loss_limit |-> 4,
         min_profitable_days |-> 3, max_inactivity_days |-> 14],
      ONE_STEP |->
        [profit_target |-> 10, max_loss_limit |-> 6, daily_loss_limit |-> 3,
         min_profitable_days |-> 3, max_inactivity_days |-> 14] ]

Programs == DOMAIN RULES

---------------------------------------------------------------------------
(* Program classifier: _infer_program *)

\* A credential key or an account name is a sequence of words; the empty
\* sequence is the empty string, and stands for None too, both being falsy.
KeyWords == { "1step", "1STEP", "2Step", "LIVE" }

NameWords == { "1 Step", "ONE STEP", "Phase 2", "step 2", "PHASE TWO", "Demo" }

\* str.upper() and str.lower(), word by word.
UpperOf ==
    [w \in KeyWords |->
        CASE w = "1step" -> "1STEP"
          [] w = "1STEP" -> "1STEP"
          [] w = "2Step" -> "2STEP"
          [] w = "LIVE" -> "LIVE"]

LowerOf ==
    [w \in NameWords |->
        CASE w = "1 Step" -> "1 step"
          [] w = "ONE STEP" -> "one step"
          [] w = "Phase 2" -> "phase 2"
          [] w = "step 2" -> "step 2"
          [] w = "PHASE TWO" -> "phase two"
          [] w = "Demo" -> "demo"]

Upper(text) == [i \in 1 .. Len(text) |-> UpperOf[text[i]]]

Lower(text) == [i \in 1 .. Len(text) |-> LowerOf[text[i]]]

\* `marker in text'
Contains(text, marker) == \E i \in 1 .. Len(text) : text[i] = marker

\* The name keywords, tried when the credential key decides nothing.
InferFromName(account_name) ==
    LET lowered == Lower(account_name)
    IN  IF Contains(lowered, "1 step") \/ Contains(lowered, "one step")
        THEN "ONE_STEP"
        ELSE IF \/ Contains(lowered, "phase 2")
                \/ Contains(lowered, "step 2")
                \/ Contains(lowered, "phase two")
        THEN "TWO_STEP_PHASE_2"
        ELSE "TWO_STEP_PHASE_1"

\* Variant of InferProgram that tries the name keywords before the key.
InferProgram_NameFirst(account_name, credential_key) ==
    LET key_upper == Upper(credential_key)
    IN  IF InferFromName(account_name) # "TWO_STEP_PHASE_1"
        THEN InferFromName(account_name)
        ELSE IF credential_key # <<>> /\ Contains(key_upper, "1STEP")
        THEN "ONE_STEP"
        ELSE "TWO_STEP_PHASE_1"

InferProgram(account_name, credential_key) ==
    LET key_upper == Upper(credential_key)
    IN  IF credential_key # <<>> /\ Contains(key_upper, "1STEP")
        THEN "ONE_STEP"
        ELSE IF credential_key # <<>> /\ Contains(key_upper, "2STEP")
        THEN "TWO_STEP_PHASE_1"
        ELSE InferFromName(account_name)

---------------------------------------------------------------------------
(* Day Grouper: _group_chart_by_day *)

\* datetime.fromtimestamp(x, tz=utc).date()
DayOf(x) == x \div TicksPerDay

\* Midnight UTC of a day, as a timestamp.
MidnightOf(day) == day * TicksPerDay

\* list.sort(key=timestamp) is stable: an element goes after every element
\* already placed whose timestamp is not larger.
RECURSIVE InsertByTimestamp(_, _)
InsertByTimestamp(sorted, p) ==
    IF sorted = <<>> THEN <<p>>
    ELSE IF sorted[Len(sorted)].timestamp <= p.timestamp
         THEN Append(sorted, p)
         ELSE Append(InsertByTimestamp(SubSeq(sorted, 1, Len(sorted) - 1), p),
                     sorted[Len(sorted)])

RECURSIVE SortByTimestamp(_)
SortByTimestamp(s) ==
    IF s = <<>> THEN <<>>
    ELSE InsertByTimestamp(SortByTimestamp(SubSeq(s, 1, Len(s) - 1)),
                           s[Len(s)])

\* The dict entry appended for one chart point.
GroupedPoint(point) ==
    [timestamp |-> point.x, balance |-> point.y[1], equity |-> point.y[2]]

RECURSIVE AppendedOfDay(_, _)
AppendedOfDay(chart, day) ==
    IF chart = <<>> THEN <<>>
    ELSE LET rest == AppendedOfDay(SubSeq(chart, 1, Len(chart) - 1), day)
             point == chart[Len(chart)]
         IN  IF Len(point.y) >= 2 /\ DayOf(point.x) = day
             THEN Append(rest, GroupedPoint(point))
             ELSE rest

\* Variant of GroupChartByDay without the final sort of each day's list.
GroupChartByDay_Unsorted(chart) ==
    LET keys == { DayOf(chart[i].x) :
                    i \in { j \in 1 .. Len(chart) : Len(chart[j].y) >= 2 } }
    IN  [day \in keys |-> AppendedOfDay(chart, day)]

GroupChartByDay(chart) ==
    LET keys == { DayOf(chart[i].x) :
                    i \in { j \in 1 .. Len(chart) : Len(chart[j].y) >= 2 } }
    IN  [day \in keys |-> SortByTimestamp(AppendedOfDay(chart, day))]

\* sorted(daily_data.keys())
RECURSIVE SortedDates(_)
SortedDates(S) ==
    IF S = {} THEN <<>>
    ELSE LET m == CHOOSE d \in S : \A e \in S : d <= e
         IN  <<m>> \o SortedDates(S \ {m})

---------------------------------------------------------------------------
(* Daily-Drawdown detector: _check_daily_drawdown *)

\* Variant of StartOfDayValue that always reads the day's first sample.
StartOfDayValue_FirstSample(prev_close, prev_timestamp, first_value, first_timestamp) ==
    [value |-> first_value, from |-> Some(first_timestamp)]

\* `prev_day_close if prev_day_close else day_points[0][...]': the value and
\* the timestamp of the sample it is read from.
StartOfDayValue(prev_close, prev_timestamp, first_value, first_timestamp) ==
    IF Truthy(prev_close)
    THEN [value |-> prev_close[1], from |-> prev_timestamp]
    ELSE [value |-> first_value, from |-> Some(first_timestamp)]

\* Start-of-day balance and equity of the day at position idx (the code's
\* i + 1) and where each comes from; `from' is None for initial_balance.
DDStartOfDay(idx, day_points, initial_balance, lp) ==
    IF idx = 1
    THEN IF initial_balance # 0 /\ initial_balance > 0
         THEN [start_balance |-> [value |-> initial_balance, from |-> None],
               start_equity |-> [value |-> initial_balance, from |-> None]]
         ELSE [start_balance |-> [value |-> day_points[1].balance,
                                  from |-> Some(day_points[1].timestamp)],
               start_equity |-> [value |-> day_points[1].equity,
                                 from |-> Some(day_points[1].timestamp)]]
    ELSE [start_balance |->
              StartOfDayValue(lp.prev_day_close_balance,
                              lp.prev_day_close_timestamp,
                              day_points[1].balance, day_points[1].timestamp),
          start_equity |->
              StartOfDayValue(lp.prev_day_close_equity,
                              lp.prev_day_close_timestamp,
                              day_points[1].equity, day_points[1].timestamp)]

\* Variant of UpdatePeak that keeps the lowest equity instead of the highest.
UpdatePeak_LowWatermark(peak_equity, equity) ==
    IF equity < peak_equity THEN equity ELSE peak_equity

\* Variant of UpdatePeak in which the watermark follows the equity down too.
UpdatePeak_Latest(peak_equity, equity) == equity

\* Variant of UpdatePeak in which the watermark stays at the day's reference.
UpdatePeak_Frozen(peak_equity, equity) == peak_equity

\* The high watermark only goes up.
UpdatePeak(peak_equity, equity) ==
    IF equity > peak_equity THEN equity ELSE peak_equity

\* threshold = peak_equity * (1 - daily_loss_limit), times Scale.
ThresholdFromPeak(peak_equity, daily_loss_limit) ==
    peak_equity * (Scale - daily_loss_limit)

\* Variant of BelowThreshold with a non-strict comparison.
BelowThreshold_Inclusive(equity, threshold) == equity * Scale <= threshold

\* equity < threshold, the threshold being scaled.
BelowThreshold(equity, threshold) == equity * Scale < threshold

\* drawdown_pct > max_drawdown_pct, both fractions <<num, den>>, den > 0.
FractionGreater(a, b) == a[1] * b[2] > b[1] * a[2]

\* One iteration of `for point in day_points'.
DDPointStep(st, point, daily_loss_limit) ==
    LET equity == point.equity
        peak_equity == UpdatePeak(st.peak_equity, equity)
        threshold == ThresholdFromPeak(peak_equity, daily_loss_limit)
        hit == BelowThreshold(equity, threshold) /\ ~st.day_breached
        drawdown_pct == <<peak_equity - equity, peak_equity>>
    IN  [ peak_equity |-> peak_equity,
          day_breached |-> st.day_breached \/ hit,
          breach_point |->
              IF hit
              THEN Some([equity_at_breach |-> equity,
                         peak_at_breach |-> peak_equity,
                         threshold_at_breach |-> threshold,
                         timestamp |-> point.timestamp])
              ELSE st.breach_point,
          max_drawdown_pct |->
              IF peak_equity > 0
                 /\ FractionGreater(drawdown_pct, st.max_drawdown_pct)
              THEN drawdown_pct ELSE st.max_drawdown_pct,
          trace |-> Append(st.trace,
                           [timestamp |-> point.timestamp,
                            equity |-> equity,
                            peak_equity |-> peak_equity,
                            threshold |-> threshold,
                            recorded |-> hit]) ]

RECURSIVE DDScanDay(_, _, _)
DDScanDay(st, day_points, daily_loss_limit) ==
    IF day_points = <<>> THEN st
    ELSE DDScanDay(DDPointStep(st, Head(day_points), daily_loss_limit),
                   Tail(day_points), daily_loss_limit)

\* Variant of IsWorseBreach in which a tie replaces the earlier breach.
IsWorseBreach_LatestOnTie(breach_amount, worst_breach) ==
    worst_breach = None \/ breach_amount >= worst_breach[1]

\* `worst_breach is None or breach_amount > worst_breach'
IsWorseBreach(breach_amount, worst_breach) ==
    worst_breach = None \/ breach_amount > worst_breach[1]

\* One iteration of `for i, day_date in enumerate(sorted_dates)'.  lp holds
\* the loop's variables; lp.log keeps, per day, what the iteration used.
DDDayStep(lp, idx, daily_data, sorted_dates, daily_loss_limit, initial_balance) ==
    LET day_date == sorted_dates[idx]
        day_points == daily_data[day_date]
        start == DDStartOfDay(idx, day_points, initial_balance, lp)
        start_balance == start.start_balance.value
        start_equity == start.start_equity.value
        reference == Max2(start_balance, start_equity)
        last == day_points[Len(day_points)]
        closed == [lp EXCEPT !.prev_day_close_balance = Some(last.balance),
                             !.prev_day_close_equity = Some(last.equity),
                             !.prev_day_close_timestamp = Some(last.timestamp)]
        scan == DDScanDay([peak_equity |-> reference,
                           day_breached |-> FALSE,
                           breach_point |-> None,
                           max_drawdown_pct |-> <<0, 1>>,
                           trace |-> <<>>],
                          day_points, daily_loss_limit)
        bp == scan.breach_point[1]
        breach_amount == bp.threshold_at_breach - bp.equity_at_breach * Scale
        entry == [day |-> day_date,
                  idx |-> idx,
                  start_balance |-> start.start_balance,
                  start_equity |-> start.start_equity,
                  reference |-> reference,
                  skipped |-> reference <= 0,
                  trace |-> IF reference <= 0 THEN <<>> ELSE scan.trace,
                  breach_point |->
                      IF reference <= 0 THEN None ELSE scan.breach_point]
        logged == [closed EXCEPT !.log = Append(@, entry)]
    IN  IF reference <= 0 THEN logged
        ELSE IF scan.day_breached /\ scan.breach_point # None
                /\ IsWorseBreach(breach_amount, lp.worst_breach)
        THEN [logged EXCEPT
                !.worst_breach = Some(breach_amount),
                !.worst_breach_date = Some(day_date),
                !.worst_breach_details =
                    [breach_date |-> day_date,
                     peak_equity |-> bp.peak_at_breach,
                     threshold |-> bp.threshold_at_breach,
                     equity_at_breach |-> bp.equity_at_breach,
                     breach_amount |-> breach_amount,
                     max_drawdown_percent |-> scan.max_drawdown_pct]]
        ELSE logged

RECURSIVE DDLoop(_, _, _, _, _, _)
DDLoop(lp, idx, daily_data, sorted_dates, daily_loss_limit, initial_balance) ==
    IF idx > Len(sorted_dates) THEN lp
    ELSE \* the loop's variables after this iteration, then the iterations left
         CHOOSE final \in
             { DDLoop(after, idx + 1, daily_data, sorted_dates,
                       daily_loss_limit, initial_balance) :
                 after \in { DDDayStep(lp, idx, daily_data, sorted_dates,
                                         daily_loss_limit, initial_balance) } } :
             TRUE

RECURSIVE PeakOver(_, _)
PeakOver(peak, points) ==
    IF points = <<>> THEN peak
    ELSE PeakOver(IF Head(points).equity > peak THEN Head(points).equity
                  ELSE peak, Tail(points))

\* The display metrics of the most recent day.
DDCurrentDay(daily_data, sorted_dates, daily_loss_limit, initial_balance) ==
    LET current_day == sorted_dates[Len(sorted_dates)]
        current_day_points == daily_data[current_day]
        first == current_day_points[1]
        last == current_day_points[Len(current_day_points)]
        prev_points == daily_data[sorted_dates[Len(sorted_dates) - 1]]
        curr_start_val ==
            IF Len(sorted_dates) > 1
            THEN IF prev_points # <<>>
                 THEN Max2(prev_points[Len(prev_points)].balance,
                           prev_points[Len(prev_points)].equity)
                 ELSE Max2(first.balance, first.equity)
            ELSE IF initial_balance # 0 THEN initial_balance
                 ELSE Max2(first.balance, first.equity)
        curr_peak == PeakOver(curr_start_val, current_day_points)
        details == [total_days_checked |-> Len(sorted_dates),
                    current_day |-> current_day,
                    allowed_drawdown_percent |-> daily_loss_limit]
    IN  IF current_day_points = <<>> THEN details
        ELSE DictUpdate(details,
                [current_start_value |-> curr_start_val,
                 current_peak_equity |-> curr_peak,
                 current_threshold |->
                     IF curr_peak > 0
                     THEN curr_peak * (Scale - daily_loss_limit) ELSE 0,
                 current_equity |-> last.equity,
                 current_drawdown_percent |->
                     IF curr_peak > 0
                     THEN <<curr_peak - last.equity, curr_peak>>
                     ELSE <<0, 1>>])

DDInitialLoop ==
    [worst_breach |-> None,
     worst_breach_date |-> None,
     worst_breach_details |-> <<>>,
     prev_day_close_balance |-> None,
     prev_day_close_equity |-> None,
     prev_day_close_timestamp |-> None,
     log |-> <<>>]

NoResult == [is_breached |-> FALSE, details |-> <<>>, log |-> <<>>]

\* Variant of CheckDailyDrawdown that returns the breach details alone when
\* a day breached.
CheckDailyDrawdown_BreachDetailsOnly(chart, daily_loss_limit, initial_balance) ==
    LET daily_data == GroupChartByDay(chart)
        sorted_dates == SortedDates(DOMAIN daily_data)
        lp == DDLoop(DDInitialLoop, 1, daily_data, sorted_dates,
                     daily_loss_limit, initial_balance)
        details == DDCurrentDay(daily_data, sorted_dates, daily_loss_limit,
                                initial_balance)
        is_breached == lp.worst_breach # None
    IN  IF chart = <<>> THEN NoResult
        ELSE IF DOMAIN daily_data = {} THEN NoResult
        ELSE [is_breached |-> is_breached,
              details |-> IF is_breached
                          THEN lp.worst_breach_details
                          ELSE details,
              log |-> lp.log]

CheckDailyDrawdown(chart, daily_loss_limit, initial_balance) ==
    LET daily_data == GroupChartByDay(chart)
        sorted_dates == SortedDates(DOMAIN daily_data)
        lp == DDLoop(DDInitialLoop, 1, daily_data, sorted_dates,
                     daily_loss_limit, initial_balance)
        details == DDCurrentDay(daily_data, sorted_dates, daily_loss_limit,
                                initial_balance)
        is_breached == lp.worst_breach # None
    IN  IF chart = <<>> THEN NoResult
        ELSE IF DOMAIN daily_data = {} THEN NoResult
        ELSE [is_breached |-> is_breached,
              details |-> IF is_breached
                          THEN DictUpdate(details, lp.worst_breach_details)
                          ELSE details,
              log |-> lp.log]

---------------------------------------------------------------------------
(* Daily-loss-limit check: _check_daily_loss_limit *)

RECURSIVE MinField(_, _)
MinField(points, field) ==
    IF Len(points) = 1 THEN points[1][field]
    ELSE Min2(points[1][field], MinField(Tail(points), field))

\* One iteration of the loop over sorted_dates.
DLDayStep(lp, idx, daily_data, sorted_dates, daily_loss_limit, initial_balance) ==
    LET day_date == sorted_dates[idx]
        day_points == daily_data[day_date]
        start == DDStartOfDay(idx, day_points, initial_balance, lp)
        start_balance == start.start_balance.value
        start_equity == start.start_equity.value
        reference_value == Max2(start_balance, start_equity)
        last == day_points[Len(day_points)]
        closed == [lp EXCEPT !.prev_day_close_balance = Some(last.balance),
                             !.prev_day_close_equity = Some(last.equity),
                             !.prev_day_close_timestamp = Some(last.timestamp)]
        threshold == reference_value * (Scale - daily_loss_limit)
        worst_value == Min2(MinField(day_points, "equity"),
                            MinField(day_points, "balance"))
        breach_amount == threshold - worst_value * Scale
    IN  IF reference_value <= 0 THEN closed
        ELSE IF worst_value * Scale < threshold
                /\ IsWorseBreach(breach_amount, lp.worst_breach)
        THEN [closed EXCEPT
                !.worst_breach = Some(breach_amount),
                !.worst_breach_date = Some(day_date),
                !.worst_breach_details =
                    [breach_date |-> day_date,
                     start_balance |-> start_balance,
                     start_equity |-> start_equity,
                     reference_value |-> reference_value,
                     threshold |-> threshold,
                     worst_value |-> worst_value,
                     breach_amount |-> breach_amount,
                     breach_percent |-> <<breach_amount, reference_value * Scale>>]]
        ELSE closed

RECURSIVE DLLoop(_, _, _, _, _, _)
DLLoop(lp, idx, daily_data, sorted_dates, daily_loss_limit, initial_balance) ==
    IF idx > Len(sorted_dates) THEN lp
    ELSE \* the loop's variables after this iteration, then the iterations left
         CHOOSE final \in
             { DLLoop(after, idx + 1, daily_data, sorted_dates,
                       daily_loss_limit, initial_balance) :
                 after \in { DLDayStep(lp, idx, daily_data, sorted_dates,
                                         daily_loss_limit, initial_balance) } } :
             TRUE

\* The display metrics of the most recent day.
DLCurrentDay(daily_data, sorted_dates, daily_loss_limit, initial_balance) ==
    LET current_day == sorted_dates[Len(sorted_dates)]
        current_day_points == daily_data[current_day]
        first == current_day_points[1]
        last == current_day_points[Len(current_day_points)]
        prev_points == daily_data[sorted_dates[Len(sorted_dates) - 1]]
        many == Len(sorted_dates) > 1
        curr_start_bal ==
            IF many
            THEN IF prev_points # <<>>
                 THEN prev_points[Len(prev_points)].balance ELSE first.balance
            ELSE IF initial_balance # 0 THEN initial_balance ELSE first.balance
        curr_start_eq ==
            IF many
            THEN IF prev_points # <<>>
                 THEN prev_points[Len(prev_points)].equity ELSE first.equity
            ELSE IF initial_balance # 0 THEN initial_balance ELSE first.equity
        curr_reference == Max2(curr_start_bal, curr_start_eq)
        details == [total_days_checked |-> Len(sorted_dates),
                    current_day |-> current_day]
    IN  IF current_day_points = <<>> THEN details
        ELSE DictUpdate(details,
                [current_start_balance |-> curr_start_bal,
                 current_start_equity |-> curr_start_eq,
                 current_reference_value |-> curr_reference,
                 current_threshold |->
                     IF curr_reference > 0
                     THEN curr_reference * (Scale - daily_loss_limit) ELSE 0,
                 current_equity |-> last.equity,
                 current_balance |-> last.balance,
                 current_min_equity |-> MinField(current_day_points, "equity"),
                 current_min_balance |-> MinField(current_day_points, "balance")])

\* Variant of CheckDailyLossLimit whose loop stops after the first day.
CheckDailyLossLimit_FirstDayOnly(chart, daily_loss_limit, initial_balance) ==
    LET daily_data == GroupChartByDay(chart)
        sorted_dates == SortedDates(DOMAIN daily_data)
        lp == DLLoop(DDInitialLoop, 1, daily_data, SubSeq(sorted_dates, 1, 1),
                     daily_loss_limit, initial_balance)
        details == DLCurrentDay(daily_data, sorted_dates, daily_loss_limit,
                                initial_balance)
        is_breached == lp.worst_breach # None
    IN  IF chart = <<>> THEN [is_breached |-> FALSE, details |-> <<>>]
        ELSE IF DOMAIN daily_data = {}
        THEN [is_breached |-> FALSE, details |-> <<>>]
        ELSE [is_breached |-> is_breached,
              details |-> IF is_breached
                          THEN DictUpdate(details, lp.worst_breach_details)
                          ELSE details]

CheckDailyLossLimit(chart, daily_loss_limit, initial_balance) ==
    LET daily_data == GroupChartByDay(chart)
        sorted_dates == SortedDates(DOMAIN daily_data)
        lp == DLLoop(DDInitialLoop, 1, daily_data, sorted_dates,
                     daily_loss_limit, initial_balance)
        details == DLCurrentDay(daily_data, sorted_dates, daily_loss_limit,
                                initial_balance)
        is_breached == lp.worst_breach # None
    IN  IF chart = <<>> THEN [is_breached |-> FALSE, details |-> <<>>]
        ELSE IF DOMAIN daily_data = {}
        THEN [is_breached |-> FALSE, details |-> <<>>]
        ELSE [is_breached |-> is_breached,
              details |-> IF is_breached
                          THEN DictUpdate(details, lp.worst_breach_details)
                          ELSE details]

---------------------------------------------------------------------------
(* Profitability counter: _count_profitable_days *)

RECURSIVE SumSeq(_)
SumSeq(s) == IF s = <<>> THEN 0 ELSE Head(s) + SumSeq(Tail(s))

\* Variant of IsProfitableDay with a strict comparison.
IsProfitableDay_Strict(day_net, initial_balance) ==
    day_net * 1000 > initial_balance * 15

\* day_net >= initial_balance * 0.015
IsProfitableDay(day_net, initial_balance) ==
    day_net * 1000 >= initial_balance * 15

RECURSIVE CountProfitableDays(_, _)
CountProfitableDays(profit_chart, initial_balance) ==
    IF initial_balance = 0 \/ initial_balance <= 0 THEN 0
    ELSE IF profit_chart = <<>> THEN 0
    ELSE (IF IsProfitableDay(SumSeq(Head(profit_chart).y), initial_balance)
          THEN 1 ELSE 0)
         + CountProfitableDays(Tail(profit_chart), initial_balance)

\* The components of a parsed y list that pass
\* `isinstance(val, (int, float))': Some(v) is a number, None anything else.
RECURSIVE NumericComponents(_)
NumericComponents(y_vals) ==
    IF y_vals = <<>> THEN <<>>
    ELSE IF Head(y_vals) # None
    THEN <<Head(y_vals)[1]>> \o NumericComponents(Tail(y_vals))
    ELSE NumericComponents(Tail(y_vals))

\* The entries of a parsed profitDaily.chart as the inner loop adds them up.
NumericView(profit_chart) ==
    [i \in 1 .. Len(profit_chart) |->
        [y |-> NumericComponents(profit_chart[i].y)]]

---------------------------------------------------------------------------
(* Inactivity detector: _check_inactivity_breach *)

\* The dict built by the loop over the chart: a day's entry is set by the
\* first point of that day the loop meets and never overwritten.
RECURSIVE DailyEquityOf(_)
DailyEquityOf(chart) ==
    IF chart = <<>> THEN <<>>
    ELSE LET rest == DailyEquityOf(SubSeq(chart, 1, Len(chart) - 1))
             point == chart[Len(chart)]
             day_key == DayOf(point.x)
         IN  IF day_key \notin DOMAIN rest
             THEN DictUpdate(rest, [d \in {day_key} |-> point.y[2]])
             ELSE rest

\* abs(curr_equity - prev_equity) < 0.01
EquityUnchanged(curr_equity, prev_equity) ==
    Abs(curr_equity - prev_equity) * Scale < 1

\* The loop `for i in range(1, len(sorted_dates))'; run holds
\* max_consecutive and current_consecutive.
RECURSIVE InactivityLoop(_, _, _, _)
InactivityLoop(run, i, daily_equity, sorted_dates) ==
    IF i > Len(sorted_dates) THEN run
    ELSE LET prev_equity == daily_equity[sorted_dates[i - 1]]
             curr_equity == daily_equity[sorted_dates[i]]
         IN  \* the counters after this iteration, then the iterations left
             CHOOSE final \in
                 { InactivityLoop(after, i + 1, daily_equity, sorted_dates) :
                     after \in
                       { IF EquityUnchanged(curr_equity, prev_equity)
                         THEN [run EXCEPT !.current_consecutive = @ + 1]
                         ELSE [max_consecutive |->
                                   Max2(run.max_consecutive,
                                        run.current_consecutive),
                               current_consecutive |-> 1] } } :
                 TRUE

\* Variant of ExceedsInactivityLimit with a non-strict comparison.
ExceedsInactivityLimit_Inclusive(max_consecutive, inactivity_limit) ==
    max_consecutive >= inactivity_limit

\* is_breached = max_consecutive > max_inactivity_days
ExceedsInactivityLimit(max_consecutive, inactivity_limit) ==
    max_consecutive > inactivity_limit

NoInactivity ==
    [is_breached |-> FALSE, max_consecutive |-> 0, daily_equity |-> <<>>]

\* Variant of CheckInactivityBreach that counts the run whatever the number
\* of recorded days.
CheckInactivityBreach_AnyDayCount(chart, inactivity_limit) ==
    LET daily_equity == DailyEquityOf(chart)
        sorted_dates == SortedDates(DOMAIN daily_equity)
        run == InactivityLoop([max_consecutive |-> 0,
                               current_consecutive |-> 1],
                              2, daily_equity, sorted_dates)
        max_consecutive == Max2(run.max_consecutive, run.current_consecutive)
    IN  IF chart = <<>> THEN NoInactivity
        ELSE [is_breached |->
                  ExceedsInactivityLimit(max_consecutive, inactivity_limit),
              max_consecutive |-> max_consecutive,
              daily_equity |-> daily_equity]

CheckInactivityBreach(chart, inactivity_limit) ==
    LET daily_equity == DailyEquityOf(chart)
        sorted_dates == SortedDates(DOMAIN daily_equity)
        run == InactivityLoop([max_consecutive |-> 0,
                               current_consecutive |-> 1],
                              2, daily_equity, sorted_dates)
        max_consecutive == Max2(run.max_consecutive, run.current_consecutive)
    IN  IF chart = <<>> \/ Len(chart) < 2 THEN NoInactivity
        ELSE IF Len(sorted_dates) < 2
        THEN [NoInactivity EXCEPT !.daily_equity = daily_equity]
        ELSE [is_breached |->
                  ExceedsInactivityLimit(max_consecutive, inactivity_limit),
              max_consecutive |-> max_consecutive,
              daily_equity |-> daily_equity]

---------------------------------------------------------------------------
(* Evaluation aggregator: _evaluate_account *)

STATUS_ACTIVE == "ACTIVE"

STATUS_BREACHED == "BREACHED"

STATUS_UNDER_REVIEW == "UNDER REVIEW"

RECURSIVE MinY(_, _)
MinY(chart, k) ==
    IF Len(chart) = 1 THEN chart[1].y[k]
    ELSE Min2(chart[1].y[k], MinY(Tail(chart), k))

\* min(min_balance, min_equity) over the chart, the current values standing
\* in for an empty chart.
MinBalance(chart, current_balance) ==
    IF chart = <<>> THEN current_balance ELSE MinY(chart, 1)

MinEquity(chart, current_equity) ==
    IF chart = <<>> THEN current_equity ELSE MinY(chart, 2)

\* Variant of MaxLossBreaches that looks at the balances only.
MaxLossBreaches_BalanceOnly(chart, rules, initial_balance, current_balance, current_equity) ==
    LET worst_value == MinBalance(chart, current_balance)
        threshold == initial_balance * (Scale - rules.max_loss_limit)
    IN  IF initial_balance > 0 /\ worst_value * Scale < threshold
        THEN << [rule |-> "MAX_LOSS_LIMIT", severity |-> "critical",
                 observed |-> worst_value, threshold |-> threshold] >>
        ELSE <<>>

\* The maximum-loss-limit check: the breach records it appends.
MaxLossBreaches(chart, rules, initial_balance, current_balance, current_equity) ==
    LET worst_value == Min2(MinBalance(chart, current_balance),
                            MinEquity(chart, current_equity))
        threshold == initial_balance * (Scale - rules.max_loss_limit)
    IN  IF initial_balance > 0 /\ worst_value * Scale < threshold
        THEN << [rule |-> "MAX_LOSS_LIMIT", severity |-> "critical",
                 observed |-> worst_value, threshold |-> threshold] >>
        ELSE <<>>

\* Variant of DailyLossBreaches that files its record under the rule name
\* of the daily-drawdown check.
DailyLossBreaches_AsDrawdown(daily_loss) ==
    IF daily_loss.is_breached
    THEN << [rule |-> "DAILY_DRAWDOWN", severity |-> "critical",
             breach_date |-> DictGet(daily_loss.details, "breach_date", "unknown"),
             observed |-> DictGet(daily_loss.details, "worst_value", 0),
             threshold |-> DictGet(daily_loss.details, "threshold", 0),
             reference_value |->
                 DictGet(daily_loss.details, "reference_value", 0)] >>
    ELSE <<>>

DailyLossBreaches(daily_loss) ==
    IF daily_loss.is_breached
    THEN << [rule |-> "DAILY_LOSS_LIMIT", severity |-> "critical",
             breach_date |-> DictGet(daily_loss.details, "breach_date", "unknown"),
             observed |-> DictGet(daily_loss.details, "worst_value", 0),
             threshold |-> DictGet(daily_loss.details, "threshold", 0),
             reference_value |->
                 DictGet(daily_loss.details, "reference_value", 0)] >>
    ELSE <<>>

\* Variant of DailyDrawdownBreaches reporting the peak as the observed value.
DailyDrawdownBreaches_ObservedPeak(daily_dd) ==
    IF daily_dd.is_breached
    THEN << [rule |-> "DAILY_DRAWDOWN", severity |-> "critical",
             breach_date |-> DictGet(daily_dd.details, "breach_date", "unknown"),
             observed |-> DictGet(daily_dd.details, "peak_equity", 0),
             threshold |-> DictGet(daily_dd.details, "threshold", 0),
             peak_equity |-> DictGet(daily_dd.details, "peak_equity", 0)] >>
    ELSE <<>>

DailyDrawdownBreaches(daily_dd) ==
    IF daily_dd.is_breached
    THEN << [rule |-> "DAILY_DRAWDOWN", severity |-> "critical",
             breach_date |-> DictGet(daily_dd.details, "breach_date", "unknown"),
             observed |-> DictGet(daily_dd.details, "equity_at_breach", 0),
             threshold |-> DictGet(daily_dd.details, "threshold", 0),
             peak_equity |-> DictGet(daily_dd.details, "peak_equity", 0)] >>
    ELSE <<>>

InactivityBreaches(inactivity, rules) ==
    IF inactivity.is_breached
    THEN << [rule |-> "INACTIVITY", severity |-> "critical",
             observed |-> inactivity.max_consecutive,
             threshold |-> rules.max_inactivity_days] >>
    ELSE <<>>

\* Variant of ProfitTargetHit without the test of the initial balance.
ProfitTargetHit_Unguarded(current_equity, initial_balance, rules) ==
    (current_equity - initial_balance) * Scale
        >= rules.profit_target * initial_balance

\* Variant of ProfitTargetHit with a strict comparison.
ProfitTargetHit_Strict(current_equity, initial_balance, rules) ==
    /\ initial_balance > 0
    /\ (current_equity - initial_balance) * Scale
           > rules.profit_target * initial_balance

\* profit_percent >= rules["profit_target"], for initial_balance > 0.
ProfitTargetHit(current_equity, initial_balance, rules) ==
    /\ initial_balance > 0
    /\ (current_equity - initial_balance) * Scale
           >= rules.profit_target * initial_balance

\* Variant of DeriveStatus in which the review test comes first.
DeriveStatus_ReviewFirst(breaches, profit_target_hit, profitable_days, rules) ==
    IF profit_target_hit /\ profitable_days >= rules.min_profitable_days
    THEN "UNDER REVIEW"
    ELSE IF breaches # <<>> THEN "BREACHED"
    ELSE "ACTIVE"

\* Status derivation.
DeriveStatus(breaches, profit_target_hit, profitable_days, rules) ==
    IF breaches # <<>> THEN STATUS_BREACHED
    ELSE IF profit_target_hit /\ profitable_days >= rules.min_profitable_days
    THEN STATUS_UNDER_REVIEW
    ELSE STATUS_ACTIVE

DeriveIsBreached(breaches) == breaches # <<>>

\* The body of _evaluate_account.  The chart is read in three places: by
\* the min() expressions of the maximum-loss check (loss_chart), by
\* _group_chart_by_day for the two daily detectors (grouped_chart) and by
\* _check_inactivity_breach (inactivity_chart).
\* The body of _evaluate_account on an object whose RULES attribute is
\* `catalog'.
EvaluateWith(catalog, grouped_chart, loss_chart, inactivity_chart, prog, initial_balance, current_balance, current_equity, profit_chart) ==
    LET rules == catalog[prog]
        daily_loss == CheckDailyLossLimit(grouped_chart,
                                          rules.daily_loss_limit,
                                          initial_balance)
        daily_dd == CheckDailyDrawdown(grouped_chart, rules.daily_loss_limit,
                                       initial_balance)
        inactivity == CheckInactivityBreach(inactivity_chart,
                                            rules.max_inactivity_days)
        breaches ==
            MaxLossBreaches(loss_chart, rules, initial_balance,
                            current_balance, current_equity)
            \o DailyLossBreaches(daily_loss)
            \o DailyDrawdownBreaches(daily_dd)
            \o InactivityBreaches(inactivity, rules)
        profitable_days == CountProfitableDays(profit_chart, initial_balance)
        profit_target_hit ==
            ProfitTargetHit(current_equity, initial_balance, rules)
    IN  [ program |-> prog,
          status |-> DeriveStatus(breaches, profit_target_hit,
                                  profitable_days, rules),
          isBreached |-> DeriveIsBreached(breaches),
          breaches |-> breaches,
          breachReasons |-> [i \in 1 .. Len(breaches) |-> breaches[i].rule],
          metrics |->
            [ initial_balance |-> initial_balance,
              current_balance |-> current_balance,
              current_equity |-> current_equity,
              worst_balance_or_equity |->
                  IF initial_balance > 0
                  THEN Some(MinBalance(loss_chart, current_balance))
                  ELSE None,
              profit_percent |->
                  IF initial_balance > 0
                  THEN Some(<<current_equity - initial_balance, initial_balance>>)
                  ELSE None,
              profit_target_hit |-> profit_target_hit,
              profitable_days |-> profitable_days,
              consecutive_inactive_days |-> inactivity.max_consecutive,
              daily_loss_total_days_checked |->
                  DictGet(daily_loss.details, "total_days_checked", None),
              daily_loss_start_balance |->
                  DictGet(daily_loss.details, "current_start_balance", None),
              daily_loss_start_equity |->
                  DictGet(daily_loss.details, "current_start_equity", None),
              daily_loss_reference_value |->
                  DictGet(daily_loss.details, "current_reference_value", None),
              daily_loss_threshold |->
                  DictGet(daily_loss.details, "current_threshold", None),
              daily_loss_current_equity |->
                  DictGet(daily_loss.details, "current_equity", None),
              daily_loss_min_equity_today |->
                  DictGet(daily_loss.details, "current_min_equity", None),
              daily_loss_breached |-> daily_loss.is_breached,
              daily_loss_breach_date |->
                  IF daily_loss.is_breached
                  THEN DictGet(daily_loss.details, "breach_date", None)
                  ELSE None,
              daily_dd_total_days_checked |->
                  DictGet(daily_dd.details, "total_days_checked", None),
              daily_dd_peak_equity |->
                  DictGet(daily_dd.details, "current_peak_equity", None),
              daily_dd_threshold |->
                  DictGet(daily_dd.details, "current_threshold", None),
              daily_dd_current_drawdown_pct |->
                  DictGet(daily_dd.details, "current_drawdown_percent", None),
              daily_dd_breached |-> daily_dd.is_breached,
              daily_dd_breach_date |->
                  IF daily_dd.is_breached
                  THEN DictGet(daily_dd.details, "breach_date", None)
                  ELSE None ] ]

\* _evaluate_account on the catalog the class is defined with.
EvaluateViews(grouped_chart, loss_chart, inactivity_chart, prog, initial_balance, current_balance, current_equity, profit_chart) ==
    EvaluateWith(RULES, grouped_chart, loss_chart, inactivity_chart, prog,
                 initial_balance, current_balance, current_equity,
                 profit_chart)

\* Variant of RulesAfterEvaluation in which an evaluation that found a
\* breach leaves the program's daily loss limit at 0.
RulesAfterEvaluation_Tightened(catalog, prog, evaluated) ==
    IF evaluated.isBreached
    THEN [catalog EXCEPT ![prog].daily_loss_limit = 0]
    ELSE catalog

\* The RULES attribute after a call of _evaluate_account: the call reads
\* RULES[program] and stores it under rulesApplied, and writes to neither.
RulesAfterEvaluation(catalog, prog, evaluated) == catalog

\* _evaluate_account on a chart whose points all carry a y list of two
\* numbers: the three readers see the same points.
EvaluateAccount(chart, prog, initial_balance, current_balance, current_equity, profit_chart) ==
    EvaluateViews(chart, chart, chart, prog, initial_balance,
                  current_balance, current_equity, profit_chart)

NoEvaluation == <<>>

\* Variant of TransformMt5Data whose top-level flag is always False.
TransformMt5Data_FlagCleared(evaluated) ==
    [ status |-> evaluated.status,
      isBreached |-> FALSE,
      breachReasons |-> evaluated.breachReasons,
      evaluation |-> evaluated ]

\* The evaluation-related fields of the document of transform_mt5_data.
TransformMt5Data(evaluated) ==
    [ status |-> evaluated.status,
      isBreached |-> evaluated.isBreached,
      breachReasons |-> evaluated.breachReasons,
      evaluation |-> evaluated ]

NoDocument == <<>>

\* No call other than the evaluation's has been made or is going to be.
OthersUnset ==
    /\ arg_account_name = <<>>
    /\ arg_credential_key = <<>>
    /\ program_result = ""
    /\ grouped_result = <<>>
    /\ profitable_days_result = None
    /\ document = NoDocument
    /\ raised = ""

NoDailyLoss == [is_breached |-> FALSE, details |-> <<>>]

NoResults == [success |-> <<>>, failed |-> <<>>]

\* No run of main has started.
PipelineUnset ==
    /\ credentials = <<>>
    /\ accounts = <<>>
    /\ account_index = 0
    /\ results = NoResults
    /\ connection = "none"
    /\ trail = <<>>
    /\ runs = 0

\* Outside the call modelled nothing has happened: the object holds the
\* catalog it was created with and no run of main has started.
ExtrasUnset ==
    /\ dl_result = NoDailyLoss
    /\ self_rules = RULES
    /\ calls = 0
    /\ fresh_evaluation = <<>>
    /\ PipelineUnset

---------------------------------------------------------------------------
(* Chart points as parsed: y may be absent, null, a number or a list *)

\* A parsed point is [x, y] with y = [kind, val]: kind "list" with val the
\* list's entries (Some(number) or None for null), kind "scalar" with val
\* the one number, kind "null" for y: null, kind "missing" for no y key.
YList(entries) == [kind |-> "list", val |-> entries]

YScalar(v) == [kind |-> "scalar", val |-> <<Some(v)>>]

YNull == [kind |-> "null", val |-> <<>>]

YMissing == [kind |-> "missing", val |-> <<>>]

\* point.get("y", [0, 0]): the default replaces a missing key only.
YOrDefault(point) ==
    IF point.y.kind = "missing" THEN YList(<<Some(0), Some(0)>>) ELSE point.y

\* float(v or 0)
FloatOrZero(o) == IF Truthy(o) THEN o[1] ELSE 0

\* The points as _group_chart_by_day reads them: a y that is no list or has
\* fewer than two entries is skipped (left without values here), a null
\* entry counts as 0.
GroupedView(chart) ==
    [i \in 1 .. Len(chart) |->
        LET y_vals == YOrDefault(chart[i])
        IN  [x |-> chart[i].x,
             y |-> IF y_vals.kind # "list" \/ Len(y_vals.val) < 2
                   THEN <<>>
                   ELSE <<FloatOrZero(y_vals.val[1]),
                          FloatOrZero(y_vals.val[2])>>]]

\* The exception of the subscript pt.get("y", [0, 0])[k - 1], "" if none.
SubscriptError(point, k) ==
    LET y_vals == YOrDefault(point)
    IN  IF y_vals.kind # "list" THEN "TypeError"
        ELSE IF Len(y_vals.val) < k THEN "IndexError"
        ELSE ""

\* pt.get("y", [0, 0])[k - 1] where the subscript does not raise.
Entry(point, k) == YOrDefault(point).val[k]

\* min(pt.get("y", [0, 0])[k - 1] for pt in balance_chart) from point i on:
\* the generator raises at the first point whose subscript fails, and min
\* raises when it compares a null with the value it holds.
RECURSIVE MinErrorFrom(_, _, _)
MinErrorFrom(chart, k, i) ==
    IF i > Len(chart) THEN ""
    ELSE IF SubscriptError(chart[i], k) # ""
    THEN SubscriptError(chart[i], k)
    ELSE IF i >= 2 /\ (Entry(chart[i], k) = None \/ Entry(chart[1], k) = None)
    THEN "TypeError"
    ELSE MinErrorFrom(chart, k, i + 1)

\* The exception of the maximum-loss block, "" if none: the two min()
\* expressions, then min(min_balance, min_equity), which compares a null
\* that a one-point chart let through.
MaxLossError(chart, initial_balance) ==
    IF initial_balance <= 0 THEN ""
    ELSE IF MinErrorFrom(chart, 1, 1) # "" THEN MinErrorFrom(chart, 1, 1)
    ELSE IF MinErrorFrom(chart, 2, 1) # "" THEN MinErrorFrom(chart, 2, 1)
    ELSE IF chart # <<>> /\ (\/ Entry(chart[1], 1) = None
                             \/ Entry(chart[1], 2) = None)
    THEN "TypeError"
    ELSE ""

\* The points as the maximum-loss block reads them when it does not raise.
LossView(chart) ==
    [i \in 1 .. Len(chart) |->
        [x |-> chart[i].x,
         y |-> [k \in 1 .. Len(YOrDefault(chart[i]).val) |->
                    FloatOrZero(Entry(chart[i], k))]]]

\* equity = point.get("y", [0, 0])[1] if isinstance(point.get("y"), list)
\*          else point.get("y", 0)
InactivityEquity(point) ==
    CASE point.y.kind = "list" -> point.y.val[2]
      [] point.y.kind = "scalar" -> point.y.val[1]
      [] point.y.kind = "null" -> None
      [] point.y.kind = "missing" -> Some(0)

\* The points as _check_inactivity_breach reads them when it does not raise.
InactivityView(chart) ==
    [i \in 1 .. Len(chart) |->
        [x |-> chart[i].x,
         y |-> <<0, IF chart[i].y.kind = "list" /\ Len(chart[i].y.val) < 2
                    THEN 0 ELSE FloatOrZero(InactivityEquity(chart[i]))>>]]

\* The exception of _check_inactivity_breach, "" if none: the subscript [1]
\* of a list shorter than two, then abs() of a difference with the null
\* equity of a day when two days or more are compared.
InactivityError(chart) ==
    LET first_of_day ==
            { i \in 1 .. Len(chart) :
                \A j \in 1 .. i - 1 : DayOf(chart[j].x) # DayOf(chart[i].x) }
    IN  IF Len(chart) < 2 THEN ""
        ELSE IF \E i \in 1 .. Len(chart) :
                    chart[i].y.kind = "list" /\ Len(chart[i].y.val) < 2
        THEN "IndexError"
        ELSE IF /\ Cardinality(first_of_day) >= 2
                /\ \E i \in first_of_day : InactivityEquity(chart[i]) = None
        THEN "TypeError"
        ELSE ""

\* The exception _evaluate_account ends with on a parsed chart, "" if none.
EvaluateError(chart, initial_balance) ==
    IF MaxLossError(chart, initial_balance) # ""
    THEN MaxLossError(chart, initial_balance)
    ELSE InactivityError(chart)

\* What _evaluate_account returns on a parsed chart when it raises nothing.
EvaluateParsed(chart, prog, initial_balance, current_balance, current_equity, profit_chart) ==
    EvaluateViews(GroupedView(chart), LossView(chart), InactivityView(chart),
                  prog, initial_balance, current_balance, current_equity,
                  profit_chart)

---------------------------------------------------------------------------
(* The evaluation applied to a parsed report *)

\* Timestamps and [balance, equity] pairs of the reports evaluated.
EvalTimestamps == 0 .. 2

EvalYValues == { <<200, 192>>, <<200, 190>>, <<200, 186>> }

EvalPoints == [x : EvalTimestamps, y : EvalYValues]

\* Short charts in any order, and flat charts of MaxDays daily samples.
EvalCharts ==
    UNION { [1 .. n -> EvalPoints] : n \in 0 .. MaxPoints }
    \cup { [i \in 1 .. MaxDays |-> [x |-> (i - 1) * TicksPerDay, y |-> v]] :
             v \in EvalYValues }

\* balance.balance and balance.equity of the report.
CurrentValues == { <<200, 210>>, <<200, 216>>, <<200, 220>>, <<180, 200>> }

\* profitDaily.chart: three days of at least 1.5% of 200, or two.
ProfitCharts ==
    { << [y |-> <<3>>], [y |-> <<4, -1>>], [y |-> <<2, 2>>] >>,
      << [y |-> <<3>>], [y |-> <<2>>], [y |-> <<4>>] >> }

Init ==
    /\ pc = "call"
    /\ arg_chart \in EvalCharts
    /\ arg_initial_balance \in InitialBalances
    /\ arg_program \in Programs
    /\ \E cv \in CurrentValues :
          arg_current_balance = cv[1] /\ arg_current_equity = cv[2]
    /\ arg_profit_chart \in ProfitCharts
    /\ arg_max_inactivity_days = RULES[arg_program].max_inactivity_days
    /\ dd_result = NoResult
    /\ inactivity_result = NoInactivity
    /\ evaluation = NoEvaluation
    /\ OthersUnset
    /\ ExtrasUnset

CallEvaluateAccount ==
    /\ pc = "call"
    /\ pc' = "done"
    /\ evaluation' = EvaluateAccount(arg_chart, arg_program,
                                     arg_initial_balance, arg_current_balance,
                                     arg_current_equity, arg_profit_chart)
    /\ UNCHANGED <<extras, arg_chart, arg_initial_balance, arg_program,
                   arg_current_balance, arg_current_equity, arg_profit_chart,
                   arg_max_inactivity_days, dd_result, inactivity_result,
                   others>>

Next == CallEvaluateAccount

Spec == Init /\ [][Next]_vars

---------------------------------------------------------------------------
(* The daily-drawdown detector applied to a chart *)

\* Programs with different daily loss limits.
DDPrograms == {"TWO_STEP_PHASE_1", "ONE_STEP"}

InitDD ==
    /\ pc = "call"
    /\ arg_chart \in Charts
    /\ arg_initial_balance \in InitialBalances
    /\ arg_program \in DDPrograms
    /\ arg_current_balance = 0
    /\ arg_current_equity = 0
    /\ arg_profit_chart = <<>>
    /\ arg_max_inactivity_days = RULES[arg_program].max_inactivity_days
    /\ dd_result = NoResult
    /\ inactivity_result = NoInactivity
    /\ evaluation = NoEvaluation
    /\ OthersUnset
    /\ ExtrasUnset

CallDailyDrawdown ==
    /\ pc = "call"
    /\ pc' = "done"
    /\ dd_result' = CheckDailyDrawdown(arg_chart,
                                       RULES[arg_program].daily_loss_limit,
                                       arg_initial_balance)
    /\ UNCHANGED <<extras, arg_chart, arg_initial_balance, arg_program,
                   arg_current_balance, arg_current_equity, arg_profit_chart,
                   arg_max_inactivity_days, inactivity_result, evaluation,
                   others>>

NextDD == CallDailyDrawdown

SpecDD == InitDD /\ [][NextDD]_vars

---------------------------------------------------------------------------
(* The inactivity detector applied to a chart *)

\* Charts of one sample a day over up to MaxDays consecutive days, on at
\* most MaxActiveDays of which the equity is the higher value, and short
\* charts of several samples a day in any order.
InactivityYValues == { <<200, 200>>, <<200, 201>> }

DailyChart(n, up) ==
    [i \in 1 .. n |->
        [x |-> (i - 1) * TicksPerDay,
         y |-> IF i \in up THEN <<200, 201>> ELSE <<200, 200>>]]

ShortCharts ==
    UNION { [1 .. n -> [x : 0 .. 3, y : InactivityYValues]] :
                n \in 0 .. MaxPoints }

InitInactivity ==
    /\ pc = "call"
    /\ \/ arg_chart \in ShortCharts
       \/ \E n \in 0 .. MaxDays : \E up \in SUBSET (1 .. n) :
              /\ Cardinality(up) <= MaxActiveDays
              /\ arg_chart = DailyChart(n, up)
    /\ arg_initial_balance = 0
    /\ arg_program = "TWO_STEP_PHASE_1"
    /\ arg_current_balance = 0
    /\ arg_current_equity = 0
    /\ arg_profit_chart = <<>>
    /\ arg_max_inactivity_days = RULES[arg_program].max_inactivity_days
    /\ dd_result = NoResult
    /\ inactivity_result = NoInactivity
    /\ evaluation = NoEvaluation
    /\ OthersUnset
    /\ ExtrasUnset

CallInactivityBreach ==
    /\ pc = "call"
    /\ pc' = "done"
    /\ inactivity_result' =
           CheckInactivityBreach(arg_chart, arg_max_inactivity_days)
    /\ UNCHANGED <<extras, arg_chart, arg_initial_balance, arg_program,
                   arg_current_balance, arg_current_equity, arg_profit_chart,
                   arg_max_inactivity_days, dd_result, evaluation,
                   others>>

NextInactivity == CallInactivityBreach

SpecInactivity == InitInactivity /\ [][NextInactivity]_vars

---------------------------------------------------------------------------
(* transform_mt5_data applied to a parsed report *)

\* One timestamp a day over three days; several samples may share it.
ReportTimestamps == { d * TicksPerDay : d \in 0 .. 2 }

\* A slow decline: each step is within the daily limits, the last one is
\* below the maximum loss limit of every program.
ReportYValues == { <<193, 193>>, <<186, 186>>, <<190, 183>> }

ReportCharts ==
    UNION { [1 .. n -> [x : ReportTimestamps, y : ReportYValues]] :
              n \in 0 .. MaxPoints }
    \cup { [i \in 1 .. MaxDays |-> [x |-> (i - 1) * TicksPerDay, y |-> v]] :
             v \in ReportYValues }

\* summary.deposit[0]: positive, missing (0) or negative.
ReportInitialBalances == { -200, 0, 200 }

ReportCurrentValues == { <<200, 216>>, <<180, 200>> }

ReportProfitChart == << [y |-> <<3>>], [y |-> <<4, -1>>], [y |-> <<2, 2>>] >>

ReportKeys == { <<>>, <<"1step">> }

ReportNames == { <<>>, <<"Phase 2">> }

InitReport ==
    /\ pc = "call"
    /\ arg_chart \in ReportCharts
    /\ arg_initial_balance \in ReportInitialBalances
    /\ arg_program = "TWO_STEP_PHASE_1"
    /\ \E cv \in ReportCurrentValues :
          arg_current_balance = cv[1] /\ arg_current_equity = cv[2]
    /\ arg_profit_chart = ReportProfitChart
    /\ arg_max_inactivity_days = RULES[arg_program].max_inactivity_days
    /\ arg_account_name \in ReportNames
    /\ arg_credential_key \in ReportKeys
    /\ dd_result = NoResult
    /\ inactivity_result = NoInactivity
    /\ evaluation = NoEvaluation
    /\ program_result = ""
    /\ grouped_result = <<>>
    /\ profitable_days_result = None
    /\ document = NoDocument
    /\ raised = ""
    /\ ExtrasUnset

CallTransformMt5Data ==
    /\ pc = "call"
    /\ pc' = "done"
    /\ program_result' = InferProgram(arg_account_name, arg_credential_key)
    /\ evaluation' = EvaluateAccount(arg_chart, program_result',
                                     arg_initial_balance, arg_current_balance,
                                     arg_current_equity, arg_profit_chart)
    /\ document' = TransformMt5Data(evaluation')
    /\ UNCHANGED <<extras, arg_chart, arg_initial_balance, arg_program,
                   arg_current_balance, arg_current_equity, arg_profit_chart,
                   arg_max_inactivity_days, arg_account_name,
                   arg_credential_key, dd_result, inactivity_result,
                   grouped_result, profitable_days_result, raised>>

NextReport == CallTransformMt5Data

SpecReport == InitReport /\ [][NextReport]_vars

---------------------------------------------------------------------------
(* The evaluation applied to a chart as parsed *)

\* Longest parsed chart.
MaxParsedPoints == 2

ParsedTimestamps == { 0, TicksPerDay }

ParsedYValues ==
    { YList(<<Some(200), Some(190)>>), YList(<<Some(200)>>),
      YList(<<None, Some(190)>>), YList(<<Some(200), None>>),
      YScalar(190), YNull, YMissing }

ParsedCharts ==
    UNION { [1 .. n -> [x : ParsedTimestamps, y : ParsedYValues]] :
              n \in 0 .. MaxParsedPoints }

InitParsed ==
    /\ pc = "call"
    /\ arg_chart \in ParsedCharts
    /\ arg_initial_balance \in InitialBalances
    /\ arg_program \in DDPrograms
    /\ arg_current_balance = 200
    /\ arg_current_equity = 200
    /\ arg_profit_chart = <<>>
    /\ arg_max_inactivity_days = RULES[arg_program].max_inactivity_days
    /\ dd_result = NoResult
    /\ inactivity_result = NoInactivity
    /\ evaluation = NoEvaluation
    /\ OthersUnset
    /\ ExtrasUnset

CallEvaluateParsed ==
    /\ pc = "call"
    /\ pc' = "done"
    /\ raised' = EvaluateError(arg_chart, arg_initial_balance)
    /\ evaluation' =
           IF raised' = ""
           THEN EvaluateParsed(arg_chart, arg_program, arg_initial_balance,
                               arg_current_balance, arg_current_equity,
                               arg_profit_chart)
           ELSE NoEvaluation
    /\ UNCHANGED <<extras, arg_chart, arg_initial_balance, arg_program,
                   arg_current_balance, arg_current_equity, arg_profit_chart,
                   arg_max_inactivity_days, arg_account_name,
                   arg_credential_key, program_result, grouped_result,
                   profitable_days_result, document, dd_result,
                   inactivity_result>>

NextParsed == CallEvaluateParsed

SpecParsed == InitParsed /\ [][NextParsed]_vars

---------------------------------------------------------------------------
(* The day grouper applied to a chart as parsed *)

GroupTimestamps == { 0, 1, TicksPerDay }

GroupYValues ==
    { YList(<<Some(200), Some(190)>>), YList(<<Some(200), Some(192)>>),
      YList(<<None, Some(192)>>), YList(<<Some(200)>>), YScalar(190),
      YMissing }

InitGroup ==
    /\ pc = "call"
    /\ \E n \in 0 .. MaxPoints :
          arg_chart \in [1 .. n -> [x : GroupTimestamps, y : GroupYValues]]
    /\ arg_initial_balance = 0
    /\ arg_program = "TWO_STEP_PHASE_1"
    /\ arg_current_balance = 0
    /\ arg_current_equity = 0
    /\ arg_profit_chart = <<>>
    /\ arg_max_inactivity_days = 0
    /\ dd_result = NoResult
    /\ inactivity_result = NoInactivity
    /\ evaluation = NoEvaluation
    /\ OthersUnset
    /\ ExtrasUnset

CallGroupChartByDay ==
    /\ pc = "call"
    /\ pc' = "done"
    /\ grouped_result' = GroupChartByDay(GroupedView(arg_chart))
    /\ UNCHANGED <<extras, arg_chart, arg_initial_balance, arg_program,
                   arg_current_balance, arg_current_equity, arg_profit_chart,
                   arg_max_inactivity_days, arg_account_name,
                   arg_credential_key, program_result,
                   profitable_days_result, document, raised, dd_result,
                   inactivity_result, evaluation>>

NextGroup == CallGroupChartByDay

SpecGroup == InitGroup /\ [][NextGroup]_vars

---------------------------------------------------------------------------
(* The program classifier applied to a name and a credential key *)

\* Longest credential key and account name, in words.
MaxTokens == 2

InitClassifier ==
    /\ pc = "call"
    /\ \E n \in 0 .. MaxTokens : arg_credential_key \in [1 .. n -> KeyWords]
    /\ \E n \in 0 .. MaxTokens : arg_account_name \in [1 .. n -> NameWords]
    /\ arg_chart = <<>>
    /\ arg_initial_balance = 0
    /\ arg_program = "TWO_STEP_PHASE_1"
    /\ arg_current_balance = 0
    /\ arg_current_equity = 0
    /\ arg_profit_chart = <<>>
    /\ arg_max_inactivity_days = 0
    /\ dd_result = NoResult
    /\ inactivity_result = NoInactivity
    /\ evaluation = NoEvaluation
    /\ program_result = ""
    /\ grouped_result = <<>>
    /\ profitable_days_result = None
    /\ document = NoDocument
    /\ raised = ""
    /\ ExtrasUnset

CallInferProgram ==
    /\ pc = "call"
    /\ pc' = "done"
    /\ program_result' = InferProgram(arg_account_name, arg_credential_key)
    /\ UNCHANGED <<extras, arg_chart, arg_initial_balance, arg_program,
                   arg_current_balance, arg_current_equity, arg_profit_chart,
                   arg_max_inactivity_days, arg_account_name,
                   arg_credential_key, grouped_result,
                   profitable_days_result, document, raised, dd_result,
                   inactivity_result, evaluation>>

NextClassifier == CallInferProgram

SpecClassifier == InitClassifier /\ [][NextClassifier]_vars

---------------------------------------------------------------------------
(* The profitability counter applied to a parsed profit chart *)

\* y lists of a day: at, above and below 1.5% of 200, with and without
\* components that are no numbers.
ProfitYValues ==
    { <<>>, <<Some(3)>>, <<Some(2)>>, <<Some(4), Some(-1)>>,
      <<Some(3), None>>, <<None>>, <<Some(2), None, Some(1)>>,
      <<Some(1), Some(1)>> }

InitProfit ==
    /\ pc = "call"
    /\ \E n \in 0 .. MaxPoints :
          arg_profit_chart \in [1 .. n -> [y : ProfitYValues]]
    /\ arg_initial_balance \in ReportInitialBalances
    /\ arg_chart = <<>>
    /\ arg_program = "TWO_STEP_PHASE_1"
    /\ arg_current_balance = 0
    /\ arg_current_equity = 0
    /\ arg_max_inactivity_days = 0
    /\ dd_result = NoResult
    /\ inactivity_result = NoInactivity
    /\ evaluation = NoEvaluation
    /\ OthersUnset
    /\ ExtrasUnset

CallCountProfitableDays ==
    /\ pc = "call"
    /\ pc' = "done"
    /\ profitable_days_result' =
           Some(CountProfitableDays(NumericView(arg_profit_chart),
                                    arg_initial_balance))
    /\ UNCHANGED <<extras, arg_chart, arg_initial_balance, arg_program,
                   arg_current_balance, arg_current_equity, arg_profit_chart,
                   arg_max_inactivity_days, arg_account_name,
                   arg_credential_key, program_result, grouped_result,
                   document, raised, dd_result, inactivity_result,
                   evaluation>>

NextProfit == CallCountProfitableDays

SpecProfit == InitProfit /\ [][NextProfit]_vars

---------------------------------------------------------------------------
(* Properties of the daily-drawdown detector (SpecDD) *)

\* Days on which the chart has a sample.
ChartDays == { DayOf(arg_chart[j].x) : j \in 1 .. Len(arg_chart) }

\* The days the detector's loop evaluated (not skipped), once it returned.
DDEvaluatedDays ==
    IF pc = "done"
    THEN { i \in 1 .. Len(dd_result.log) : ~dd_result.log[i].skipped }
    ELSE {}

DDLimit == RULES[arg_program].daily_loss_limit

\* Highest of the day's reference and its equities up to sample k.
RunningPeak(entry, k) ==
    LET vals == {entry.reference} \cup { entry.trace[j].equity : j \in 1 .. k }
    IN  CHOOSE v \in vals : \A w \in vals : w <= v

\* C3 as stated: the threshold of every sample of a day is
\* reference * (1 - dailyLossLimit), whatever the day's earlier equities.
C3_ThresholdFixedAtDayStart ==
    \A i \in DDEvaluatedDays :
        \A k \in 1 .. Len(dd_result.log[i].trace) :
            dd_result.log[i].trace[k].threshold
                = dd_result.log[i].reference * (Scale - DDLimit)

\* C3 amended: the threshold of a sample is peak * (1 - dailyLossLimit),
\* peak being the highest of the day's reference and the day's equities up
\* to and including that sample; it is the reference's threshold as long as
\* no equity of the day has exceeded the reference.
C3_ThresholdFollowsPeak ==
    \A i \in DDEvaluatedDays :
        LET entry == dd_result.log[i]
        IN  \A k \in 1 .. Len(entry.trace) :
                /\ entry.trace[k].threshold
                       = RunningPeak(entry, k) * (Scale - DDLimit)
                /\ (\A j \in 1 .. k : entry.trace[j].equity <= entry.reference)
                       => entry.trace[k].threshold
                              = entry.reference * (Scale - DDLimit)

\* A day on which a sample after an intraday peak is compared against the
\* peak's threshold, which is above the reference's.
C3_Witness ==
    \E i \in DDEvaluatedDays :
        LET entry == dd_result.log[i]
        IN  \E k \in 2 .. Len(entry.trace) :
                /\ entry.trace[k - 1].equity > entry.reference
                /\ entry.trace[k].equity < entry.trace[k - 1].equity
                /\ entry.trace[k].threshold
                       > entry.reference * (Scale - DDLimit)

\* C4 as stated: for an evaluated day after the first, neither start-of-day
\* value behind the reference is read from a sample stamped later than the
\* day's midnight.
C4_NoLookAhead ==
    \A i \in DDEvaluatedDays \ {1} :
            LET entry == dd_result.log[i]
            IN  /\ entry.start_balance.from # None
                /\ entry.start_equity.from # None
                /\ entry.start_balance.from[1] <= MidnightOf(entry.day)
                /\ entry.start_equity.from[1] <= MidnightOf(entry.day)

\* Positions of the chart's samples stamped at or before t / before t.
SamplesAtOrBefore(t) == { j \in 1 .. Len(arg_chart) : arg_chart[j].x <= t }

SamplesBefore(t) == { j \in 1 .. Len(arg_chart) : arg_chart[j].x < t }

SamplesOfDay(day) == { j \in 1 .. Len(arg_chart) : DayOf(arg_chart[j].x) = day }

\* The closing sample before a day: latest timestamp before its midnight,
\* the last of the chart among equal timestamps.
ClosingSampleBefore(day) ==
    LET S == SamplesBefore(MidnightOf(day))
    IN  CHOOSE j \in S :
            \A k \in S : \/ arg_chart[k].x < arg_chart[j].x
                         \/ arg_chart[k].x = arg_chart[j].x /\ k <= j

\* The opening sample of a day: earliest timestamp, the first of the chart
\* among equal timestamps.
OpeningSampleOf(day) ==
    LET S == SamplesOfDay(day)
    IN  CHOOSE j \in S :
            \A k \in S : \/ arg_chart[k].x > arg_chart[j].x
                         \/ arg_chart[k].x = arg_chart[j].x /\ k >= j

\* C5 as stated, for the days after the first recorded day whose previous
\* close has a non-zero balance and equity: the day's reference is
\* max(balance, equity) of a sample with the latest timestamp at or before
\* the day's midnight, over all samples.
C5_ReferenceIsLatestAtOrBeforeMidnight ==
    pc = "done" =>
        \A i \in 2 .. Len(dd_result.log) :
            LET entry == dd_result.log[i]
                S == SamplesAtOrBefore(MidnightOf(entry.day))
                close == arg_chart[ClosingSampleBefore(entry.day)].y
            IN  close[1] # 0 /\ close[2] # 0 =>
                  \E j \in S :
                      /\ \A k \in S : arg_chart[k].x <= arg_chart[j].x
                      /\ entry.reference
                             = Max2(arg_chart[j].y[1], arg_chart[j].y[2])

\* C5 amended: after the first recorded day the reference is max(b, e), b
\* and e being the balance and equity of the latest sample strictly before
\* the day's midnight (the close of the nearest earlier recorded day; a
\* sample stamped exactly at the midnight is not used), a close of 0 being
\* replaced by the value of the day's own first sample; on the first
\* recorded day it is the initial balance when positive, else
\* max(balance, equity) of the day's first sample.
C5_ReferenceIsPreviousClose ==
    pc = "done" =>
        \A i \in 1 .. Len(dd_result.log) :
            LET entry == dd_result.log[i]
                open == arg_chart[OpeningSampleOf(entry.day)].y
                close == arg_chart[ClosingSampleBefore(entry.day)].y
            IN  IF i = 1
                THEN /\ SamplesBefore(MidnightOf(entry.day)) = {}
                     /\ entry.reference
                            = IF arg_initial_balance > 0
                              THEN arg_initial_balance
                              ELSE Max2(open[1], open[2])
                ELSE /\ SamplesBefore(MidnightOf(entry.day)) # {}
                     /\ entry.reference
                            = Max2(IF close[1] # 0 THEN close[1] ELSE open[1],
                                   IF close[2] # 0 THEN close[2] ELSE open[2])

\* A day with a sample exactly at its midnight whose reference is the
\* close of a recorded day two days earlier, not the midnight sample.
C5_Witness ==
    /\ pc = "done"
    /\ \E i \in 2 .. Len(dd_result.log) :
          LET entry == dd_result.log[i]
              close == arg_chart[ClosingSampleBefore(entry.day)]
          IN  /\ \E j \in SamplesOfDay(entry.day) :
                    /\ arg_chart[j].x = MidnightOf(entry.day)
                    /\ Max2(arg_chart[j].y[1], arg_chart[j].y[2])
                           # entry.reference
              /\ DayOf(close.x) + 1 < entry.day
              /\ entry.reference = Max2(close.y[1], close.y[2])
              /\ entry.reference > 0

\* Samples of a day's trace strictly below the threshold applied to them.
BelowInTrace(entry) ==
    { k \in 1 .. Len(entry.trace) :
        entry.trace[k].equity * Scale < entry.trace[k].threshold }

\* C6: a day records at most one breach point, the chronologically first
\* sample strictly below its threshold; later samples never replace it and
\* a sample equal to its threshold is no breach.
C6_FirstBreachOfDayOnly ==
    \A i \in DDEvaluatedDays :
        LET entry == dd_result.log[i]
            below == BelowInTrace(entry)
            recorded == { k \in 1 .. Len(entry.trace) : entry.trace[k].recorded }
        IN  IF below = {}
            THEN recorded = {} /\ entry.breach_point = None
            ELSE LET first == CHOOSE k \in below : \A m \in below : k <= m
                 IN  /\ recorded = {first}
                     /\ entry.breach_point # None
                     /\ entry.breach_point[1].equity_at_breach
                            = entry.trace[first].equity
                     /\ entry.breach_point[1].threshold_at_breach
                            = entry.trace[first].threshold
                     /\ entry.breach_point[1].timestamp
                            = entry.trace[first].timestamp

\* A day whose first sample equals its threshold (no breach), whose second
\* is below it (recorded) and whose third is lower still (not recorded).
C6_Witness ==
    \E i \in DDEvaluatedDays :
        LET entry == dd_result.log[i]
        IN  /\ Len(entry.trace) = 3
            /\ entry.trace[1].equity * Scale = entry.trace[1].threshold
            /\ entry.trace[2].recorded
            /\ entry.trace[3].equity < entry.trace[2].equity
            /\ entry.breach_point[1].equity_at_breach = entry.trace[2].equity

\* Days with a recorded breach point, and the amount each is below by.
DDBreachedDays ==
    { i \in DDEvaluatedDays : dd_result.log[i].breach_point # None }

DDBreachAmount(i) ==
    LET bp == dd_result.log[i].breach_point[1]
    IN  bp.threshold_at_breach - bp.equity_at_breach * Scale

\* C8: the reported breach is the day's first-breach point with the largest
\* threshold - equityAtBreach, the earliest day among equal amounts, and
\* breach_date, threshold and equity_at_breach are all that day's.
C8_WorstBreachEarliestOnTie ==
    pc = "done" =>
        IF DDBreachedDays = {}
        THEN ~dd_result.is_breached
        ELSE LET worst ==
                   CHOOSE i \in DDBreachedDays :
                       \A k \in DDBreachedDays :
                           \/ DDBreachAmount(k) < DDBreachAmount(i)
                           \/ DDBreachAmount(k) = DDBreachAmount(i) /\ i <= k
                 bp == dd_result.log[worst].breach_point[1]
             IN  /\ dd_result.is_breached
                 /\ dd_result.details.breach_date = dd_result.log[worst].day
                 /\ dd_result.details.threshold = bp.threshold_at_breach
                 /\ dd_result.details.equity_at_breach = bp.equity_at_breach
                 /\ dd_result.details.breach_amount = DDBreachAmount(worst)

\* Three breached days: the first two tie on the amount, the third is
\* below by less; the first is the one reported.
C8_Witness ==
    /\ pc = "done"
    /\ \E i, k, m \in DDBreachedDays :
          /\ i < k /\ k < m
          /\ DDBreachAmount(i) = DDBreachAmount(k)
          /\ DDBreachAmount(m) < DDBreachAmount(i)
          /\ dd_result.details.breach_date = dd_result.log[i].day

\* The days after the first whose previous close gives no reference: the
\* closing sample before the day's midnight holds balance 0 and equity 0,
\* which the detector's own test `peak_equity <= 0' rejects as a reference.
DDDaysWithoutReference ==
    IF pc = "done"
    THEN { i \in 2 .. Len(dd_result.log) :
             LET close == arg_chart[ClosingSampleBefore(dd_result.log[i].day)].y
             IN  close[1] = 0 /\ close[2] = 0 }
    ELSE {}

BelowRunningPeak(entry) ==
    { k \in 1 .. Len(entry.trace) :
        entry.trace[k].equity * Scale
            < RunningPeak(entry, k) * (Scale - DDLimit) }

C23_WatermarkPerDay ==
    \A i \in DDEvaluatedDays :
        LET entry == dd_result.log[i]
        IN  /\ entry.trace # <<>> =>
                  entry.trace[1].peak_equity
                      = Max2(entry.reference, entry.trace[1].equity)
            /\ \A k \in 2 .. Len(entry.trace) :
                  entry.trace[k].peak_equity >= entry.trace[k - 1].peak_equity
            /\ \A k \in 1 .. Len(entry.trace) :
                  /\ entry.trace[k].peak_equity >= entry.trace[k].equity
                  /\ entry.trace[k].peak_equity >= entry.reference
                  /\ entry.trace[k].peak_equity = RunningPeak(entry, k)

\* Two evaluated days in a row, the first reaching a peak that the second
\* day's watermark stays below from its first sample to its last.
C23_Witness ==
    \E i \in DDEvaluatedDays :
        /\ i + 1 \in DDEvaluatedDays
        /\ LET before == dd_result.log[i]
               entry == dd_result.log[i + 1]
           IN  /\ before.trace[Len(before.trace)].peak_equity
                      > before.reference
               /\ \A k \in 1 .. Len(entry.trace) :
                     entry.trace[k].peak_equity
                         < before.trace[Len(before.trace)].peak_equity

\* The most recent day of the chart and the equities of its samples.
MostRecentDay ==
    CHOOSE d \in ChartDays : \A e \in ChartDays : e <= d

MostRecentEquities ==
    { arg_chart[j].y[2] : j \in SamplesOfDay(MostRecentDay) }

\* The current-day entries of the details as the last step of the detector
\* computed them, before any breach details are merged in.
DDCurrentDayDetails ==
    DDCurrentDay(GroupChartByDay(arg_chart),
                 SortedDates(DOMAIN GroupChartByDay(arg_chart)),
                 DDLimit, arg_initial_balance)

\* C24: for a chart with a sample the details hold the current peak, the
\* current threshold and the current drawdown fraction, breach or no
\* breach; they are those of the most recent day (its last equity, the
\* highest of its start value and its equities), and they are what they
\* were before the breach details were merged in.
C24_CurrentDayMetricsKept ==
    pc = "done" /\ arg_chart # <<>> =>
        LET details == dd_result.details
        IN  /\ { "current_peak_equity", "current_threshold",
                 "current_equity", "current_drawdown_percent" }
                   \subseteq DOMAIN details
            /\ details.current_day = MostRecentDay
            /\ details.current_peak_equity
                   \in MostRecentEquities \cup {details.current_start_value}
            /\ details.current_peak_equity >= details.current_start_value
            /\ \A e \in MostRecentEquities : details.current_peak_equity >= e
            /\ \A key \in { "current_peak_equity", "current_threshold",
                            "current_equity", "current_drawdown_percent" } :
                  details[key] = DDCurrentDayDetails[key]

\* A breach on an earlier day than the most recent one: the details carry
\* the breach day's peak and, next to it, a different current peak.
C24_Witness ==
    /\ pc = "done"
    /\ dd_result.is_breached
    /\ dd_result.details.breach_date < dd_result.details.current_day
    /\ dd_result.details.peak_equity
           # dd_result.details.current_peak_equity
    /\ dd_result.details.threshold # dd_result.details.current_threshold

\* C30: when the loop evaluated the most recent day, the start value
\* behind the reported current-day metrics is the reference the loop used
\* for that day, and so the reported current peak and threshold are the
\* loop's watermark and threshold after the day's last sample.
C30_CurrentMetricsUseLoopReference ==
    pc = "done" /\ arg_chart # <<>> =>
        LET entry == dd_result.log[Len(dd_result.log)]
            last == entry.trace[Len(entry.trace)]
        IN  ~entry.skipped =>
                /\ dd_result.details.current_start_value = entry.reference
                /\ dd_result.details.current_peak_equity = last.peak_equity
                /\ dd_result.details.current_threshold = last.threshold

---------------------------------------------------------------------------
(* Properties of the evaluation (Spec) *)

EvalRules == RULES[arg_program]

\* Some sample of the chart (the current values for an empty chart) is
\* strictly below initial_balance * (1 - maxLossLimit).
BelowMaxLoss ==
    LET floor == arg_initial_balance * (Scale - EvalRules.max_loss_limit)
    IN  IF arg_chart = <<>>
        THEN arg_current_balance * Scale < floor
             \/ arg_current_equity * Scale < floor
        ELSE \E j \in 1 .. Len(arg_chart) :
                 \/ arg_chart[j].y[1] * Scale < floor
                 \/ arg_chart[j].y[2] * Scale < floor

\* C1: status is BREACHED iff isBreached iff the breach list is non-empty,
\* and a breach reported by any detector makes the status BREACHED.
C1_BreachedIffBreaches ==
    pc = "done" =>
        /\ (evaluation.status = STATUS_BREACHED) <=> evaluation.isBreached
        /\ evaluation.isBreached <=> (Len(evaluation.breaches) > 0)
        /\ ( \/ arg_initial_balance > 0 /\ BelowMaxLoss
             \/ evaluation.metrics.daily_loss_breached
             \/ evaluation.metrics.daily_dd_breached
             \/ evaluation.metrics.consecutive_inactive_days
                    > EvalRules.max_inactivity_days )
               => evaluation.status = STATUS_BREACHED

\* An evaluation breached by inactivity alone whose profit target and
\* profitable days would otherwise have put it under review.
C1_Witness ==
    /\ pc = "done"
    /\ evaluation.status = STATUS_BREACHED
    /\ Len(evaluation.breaches) = 1
    /\ evaluation.breaches[1].rule = "INACTIVITY"
    /\ evaluation.metrics.profit_target_hit
    /\ evaluation.metrics.profitable_days >= EvalRules.min_profitable_days

\* Days of the profit chart whose summed components reach 1.5% of the
\* initial balance.
ProfitableDayCount ==
    Cardinality({ i \in 1 .. Len(arg_profit_chart) :
                    SumSeq(arg_profit_chart[i].y) * 1000
                        >= arg_initial_balance * 15 })

\* C2: without a breach the status is UNDER REVIEW iff initialBalance > 0,
\* the profit fraction reaches the program's target and the profitable-day
\* count reaches minProfitableDays, and ACTIVE otherwise; with a breach it
\* is never UNDER REVIEW.
C2_UnderReviewIffTargetAndDays ==
    pc = "done" =>
        LET qualifies ==
                /\ arg_initial_balance > 0
                /\ (arg_current_equity - arg_initial_balance) * Scale
                       >= EvalRules.profit_target * arg_initial_balance
                /\ ProfitableDayCount >= EvalRules.min_profitable_days
        IN  /\ evaluation.breaches = <<>> =>
                  evaluation.status
                      = IF qualifies THEN STATUS_UNDER_REVIEW
                        ELSE STATUS_ACTIVE
            /\ evaluation.breaches # <<>> =>
                  evaluation.status # STATUS_UNDER_REVIEW

\* An evaluation under review whose profit is exactly the program's target.
C2_Witness ==
    /\ pc = "done"
    /\ evaluation.status = STATUS_UNDER_REVIEW
    /\ arg_chart # <<>>
    /\ (arg_current_equity - arg_initial_balance) * Scale
           = EvalRules.profit_target * arg_initial_balance

\* The chart is one day's history that never exceeds the initial balance
\* nor falls below the max-loss threshold.
SingleDayWithinLimits ==
    /\ arg_chart # <<>>
    /\ arg_initial_balance > 0
    /\ \A j, k \in 1 .. Len(arg_chart) :
           DayOf(arg_chart[j].x) = DayOf(arg_chart[k].x)
    /\ \A j \in 1 .. Len(arg_chart) : arg_chart[j].y[2] <= arg_initial_balance
    /\ ~BelowMaxLoss

\* Samples strictly below initialBalance * (1 - dailyLossLimit).
BelowDailyFloor ==
    { j \in 1 .. Len(arg_chart) :
        arg_chart[j].y[2] * Scale
            < arg_initial_balance * (Scale - EvalRules.daily_loss_limit) }

DrawdownRecords ==
    { i \in 1 .. Len(evaluation.breaches) :
        evaluation.breaches[i].rule = "DAILY_DRAWDOWN" }

\* C7: for such a history the status is BREACHED with a DAILY_DRAWDOWN
\* record iff some equity is strictly below B * (1 - dailyLossLimit); the
\* record's threshold is that value and its observed value the equity of
\* the earliest such sample.
C7_SingleDayDrawdownEndToEnd ==
    pc = "done" /\ SingleDayWithinLimits =>
        /\ (evaluation.status = STATUS_BREACHED /\ DrawdownRecords # {})
               <=> BelowDailyFloor # {}
        /\ BelowDailyFloor # {} =>
              LET earliest ==
                      CHOOSE j \in BelowDailyFloor :
                          \A k \in BelowDailyFloor :
                              \/ arg_chart[k].x > arg_chart[j].x
                              \/ arg_chart[k].x = arg_chart[j].x /\ k >= j
              IN  \A i \in DrawdownRecords :
                      /\ evaluation.breaches[i].threshold
                             = arg_initial_balance
                                   * (Scale - EvalRules.daily_loss_limit)
                      /\ evaluation.breaches[i].observed
                             = arg_chart[earliest].y[2]

\* Scenario A in the model's units: one day, a first sample at the
\* threshold, a second below it and a third lower still; the breach is
\* the second sample.
C7_Witness ==
    /\ pc = "done"
    /\ SingleDayWithinLimits
    /\ Len(arg_chart) = 3
    /\ arg_chart[1].x < arg_chart[2].x
    /\ arg_chart[1].y[2] * Scale
           = arg_initial_balance * (Scale - EvalRules.daily_loss_limit)
    /\ arg_chart[3].y[2] < arg_chart[2].y[2]
    /\ \E i \in DrawdownRecords :
           evaluation.breaches[i].observed = arg_chart[2].y[2]
    /\ evaluation.status = STATUS_BREACHED

---------------------------------------------------------------------------
(* Properties of the inactivity detector (SpecInactivity) *)

\* The recorded days in ascending order and the equity kept for each.
InactivityDates == SortedDates(DOMAIN inactivity_result.daily_equity)

\* Some m adjacent recorded days keep equities that differ, each from the
\* next, by less than 0.01.
HasFlatRun(m) ==
    \E a \in 1 .. (Len(InactivityDates) - m + 1) :
        \A k \in a .. (a + m - 2) :
            Abs(inactivity_result.daily_equity[InactivityDates[k + 1]]
                  - inactivity_result.daily_equity[InactivityDates[k]])
                * Scale < 1

\* C9: the detector reports a breach iff the longest run of adjacent
\* recorded days with near-equal equity is strictly longer than
\* maxInactivityDays days, that is iff a run of maxInactivityDays + 1
\* days exists.
C9_BreachIffRunExceedsLimit ==
    pc = "done" =>
        (inactivity_result.is_breached
            <=> HasFlatRun(arg_max_inactivity_days + 1))

\* A history longer than its flat run of exactly maxInactivityDays + 1
\* days, which breaches; the run the detector measured is that long.
C9_Witness ==
    /\ pc = "done"
    /\ HasFlatRun(arg_max_inactivity_days + 1)
    /\ ~HasFlatRun(arg_max_inactivity_days + 2)
    /\ Len(InactivityDates) > arg_max_inactivity_days + 1
    /\ inactivity_result.max_consecutive = arg_max_inactivity_days + 1
    /\ inactivity_result.is_breached

\* A flat run of exactly maxInactivityDays days, which does not breach.
C9_WitnessAtLimit ==
    /\ pc = "done"
    /\ HasFlatRun(arg_max_inactivity_days)
    /\ ~HasFlatRun(arg_max_inactivity_days + 1)
    /\ ~inactivity_result.is_breached

\* C10 as stated: in a history of two recorded days or more, the equity
\* kept for a day is the equity of the chronologically last sample of that
\* day.
C10_DailyEquityIsLastSample ==
    pc = "done" /\ Len(InactivityDates) >= 2 =>
        \A day \in DOMAIN inactivity_result.daily_equity :
            \E j \in SamplesOfDay(day) :
                /\ \A k \in SamplesOfDay(day) : arg_chart[k].x <= arg_chart[j].x
                /\ inactivity_result.daily_equity[day] = arg_chart[j].y[2]

---------------------------------------------------------------------------
(* Properties of the report's evaluation (SpecReport) *)

ReportRules == RULES[evaluation.program]

\* Positions of the breach records of a rule.
RecordsOf(rule) ==
    { i \in 1 .. Len(evaluation.breaches) : evaluation.breaches[i].rule = rule }

\* initialBalance * (1 - maxLossLimit), scaled.
MaxLossFloor == arg_initial_balance * (Scale - ReportRules.max_loss_limit)

\* Some sample's balance or equity is strictly below the floor.
SampleBelowMaxLossFloor ==
    \E j \in 1 .. Len(arg_chart) :
        \/ arg_chart[j].y[1] * Scale < MaxLossFloor
        \/ arg_chart[j].y[2] * Scale < MaxLossFloor

\* C11 as stated: a MAX_LOSS_LIMIT record exists iff initialBalance > 0
\* and the minimum of the balances and equities of the history's samples
\* is strictly below initialBalance * (1 - maxLossLimit).
C11_MaxLossIffSampleBelowFloor ==
    pc = "done" =>
        (RecordsOf("MAX_LOSS_LIMIT") # {}
            <=> arg_initial_balance > 0 /\ SampleBelowMaxLossFloor)

\* C11 amended: a MAX_LOSS_LIMIT record exists iff initialBalance > 0 and
\* the minimum of the balances and equities of the history's samples, or
\* of the current balance and equity when the history has no sample, is
\* strictly below initialBalance * (1 - maxLossLimit); neither timestamps
\* nor the other detectors' results enter.
C11_MaxLossIffWorstBelowFloor ==
    pc = "done" =>
        (RecordsOf("MAX_LOSS_LIMIT") # {}
            <=> /\ arg_initial_balance > 0
                /\ IF arg_chart = <<>>
                   THEN \/ arg_current_balance * Scale < MaxLossFloor
                        \/ arg_current_equity * Scale < MaxLossFloor
                   ELSE SampleBelowMaxLossFloor)

\* A three-day decline breaching the maximum loss limit and nothing else.
C11_Witness ==
    /\ pc = "done"
    /\ Len(arg_chart) = 3
    /\ arg_chart[1].x < arg_chart[2].x /\ arg_chart[2].x < arg_chart[3].x
    /\ Len(evaluation.breaches) = 1
    /\ evaluation.breaches[1].rule = "MAX_LOSS_LIMIT"
    /\ evaluation.breaches[1].observed = 183

\* C12: with initialBalance <= 0 there is no MAX_LOSS_LIMIT record, the
\* max-loss metric and profit_percent are null, profit_target_hit is false
\* and the status is never UNDER REVIEW; the daily detectors have still
\* gone over every day of the chart, and the status is BREACHED exactly
\* when a daily or the inactivity detector reports a breach.
C12_NonPositiveInitialBalance ==
    pc = "done" /\ arg_initial_balance <= 0 =>
        /\ RecordsOf("MAX_LOSS_LIMIT") = {}
        /\ evaluation.metrics.worst_balance_or_equity = None
        /\ evaluation.metrics.profit_percent = None
        /\ ~evaluation.metrics.profit_target_hit
        /\ evaluation.status # STATUS_UNDER_REVIEW
        /\ arg_chart # <<>> =>
              /\ evaluation.metrics.daily_dd_total_days_checked
                     = Cardinality(ChartDays)
              /\ evaluation.metrics.daily_loss_total_days_checked
                     = Cardinality(ChartDays)
        /\ (evaluation.status = STATUS_BREACHED)
               <=> \/ evaluation.metrics.daily_loss_breached
                   \/ evaluation.metrics.daily_dd_breached
                   \/ evaluation.metrics.consecutive_inactive_days
                          > ReportRules.max_inactivity_days

\* A negative initial balance, a current equity far above it, and a
\* status BREACHED by the daily drawdown of a day.
C12_Witness ==
    /\ pc = "done"
    /\ arg_initial_balance < 0
    /\ arg_current_equity > arg_current_balance
    /\ RecordsOf("DAILY_DRAWDOWN") # {}
    /\ evaluation.status = STATUS_BREACHED

\* The place of each rule in the order of the checks of the spec / of
\* _evaluate_account.
SpecRuleRank ==
    [r \in {"MAX_LOSS_LIMIT", "DAILY_DRAWDOWN", "INACTIVITY"} |->
        CASE r = "MAX_LOSS_LIMIT" -> 1
          [] r = "DAILY_DRAWDOWN" -> 2
          [] r = "INACTIVITY" -> 3]

CodeRuleRank ==
    [r \in {"MAX_LOSS_LIMIT", "DAILY_LOSS_LIMIT", "DAILY_DRAWDOWN",
            "INACTIVITY"} |->
        CASE r = "MAX_LOSS_LIMIT" -> 1
          [] r = "DAILY_LOSS_LIMIT" -> 2
          [] r = "DAILY_DRAWDOWN" -> 3
          [] r = "INACTIVITY" -> 4]

\* The breach list holds rules of the ranking only, each at most once, in
\* the ranking's order.
BreachesFollow(rank) ==
    /\ \A i \in 1 .. Len(evaluation.breaches) :
          evaluation.breaches[i].rule \in DOMAIN rank
    /\ \A i, j \in 1 .. Len(evaluation.breaches) :
          i < j => rank[evaluation.breaches[i].rule]
                       < rank[evaluation.breaches[j].rule]

\* C17 as stated: the breach list holds only MAX_LOSS_LIMIT, DAILY_DRAWDOWN
\* and INACTIVITY records, at most one of each, in that order.
C17_ThreeRulesInOrder == pc = "done" => BreachesFollow(SpecRuleRank)

\* C17 amended: the breach list holds only MAX_LOSS_LIMIT, DAILY_LOSS_LIMIT,
\* DAILY_DRAWDOWN and INACTIVITY records, at most one of each, in that
\* order.
C17_FourRulesInOrder == pc = "done" => BreachesFollow(CodeRuleRank)

\* All four checks have filed a record.
C17_Witness ==
    /\ pc = "done"
    /\ Len(evaluation.breaches) = 4

\* C20: the document's top-level status and isBreached are those of the
\* evaluation it embeds, and its breachReasons are the rule names of the
\* evaluation's breach list, one per record and in the list's order.
C20_TopLevelFieldsMirrorEvaluation ==
    pc = "done" =>
        /\ document.evaluation = evaluation
        /\ document.status = document.evaluation.status
        /\ document.isBreached = document.evaluation.isBreached
        /\ Len(document.breachReasons) = Len(document.evaluation.breaches)
        /\ \A i \in 1 .. Len(document.evaluation.breaches) :
              document.breachReasons[i] = document.evaluation.breaches[i].rule

\* A breached report whose document lists two different rules.
C20_Witness ==
    /\ pc = "done"
    /\ document.isBreached
    /\ document.status = STATUS_BREACHED
    /\ Len(document.breachReasons) = 2
    /\ document.breachReasons[1] # document.breachReasons[2]

---------------------------------------------------------------------------
(* Properties of the evaluation of a parsed chart *)

\* C13: whatever the chart's points hold (y absent, no list, shorter than
\* two, or with a null entry), _evaluate_account ends without an exception.
C13_NeverRaises == pc = "done" => raised = ""

---------------------------------------------------------------------------
(* Properties of the day grouper *)

\* The ways of putting n points in another order.
Reorderings(n) ==
    { f \in [1 .. n -> 1 .. n] : \A i, j \in 1 .. n : f[i] = f[j] => i = j }

\* C14: the grouper returns the same buckets, each with the same samples
\* in the same order, for every reordering of the chart's points, also when
\* points of different values carry the same timestamp.
C14_OrderIndependent ==
    pc = "done" =>
        \A f \in Reorderings(Len(arg_chart)) :
            GroupChartByDay(GroupedView(
                [i \in 1 .. Len(arg_chart) |-> arg_chart[f[i]]]))
              = grouped_result

\* The positions of the points the grouper keeps: y, or the [0, 0] that
\* stands for an absent y, is a list of two entries or more.
ValidSamples ==
    { i \in 1 .. Len(arg_chart) :
        /\ YOrDefault(arg_chart[i]).kind = "list"
        /\ Len(YOrDefault(arg_chart[i]).val) >= 2 }

\* The bucket entry a kept point gives.
SampleOf(i) ==
    [timestamp |-> arg_chart[i].x,
     balance |-> FloatOrZero(YOrDefault(arg_chart[i]).val[1]),
     equity |-> FloatOrZero(YOrDefault(arg_chart[i]).val[2])]

ValidSamplesOfDay(day) ==
    { i \in ValidSamples : DayOf(arg_chart[i].x) = day }

---------------------------------------------------------------------------
(* Properties of the program classifier *)

\* Some word of the text is one of the given words.
HasWord(text, words) == \E i \in 1 .. Len(text) : text[i] \in words

\* C16: the classifier always returns a key of RULES, by first match: a
\* key with the one-step marker gives ONE_STEP; else a key with the
\* two-step marker gives TWO_STEP_PHASE_1 whatever the name says; else a
\* name with "1 step" or "one step" gives ONE_STEP; else a name with
\* "phase 2", "step 2" or "phase two" gives TWO_STEP_PHASE_2; else
\* TWO_STEP_PHASE_1.
C16_FirstMatchPrecedence ==
    pc = "done" =>
        /\ program_result \in DOMAIN RULES
        /\ program_result =
             IF HasWord(arg_credential_key, {"1step", "1STEP"})
             THEN "ONE_STEP"
             ELSE IF HasWord(arg_credential_key, {"2Step"})
             THEN "TWO_STEP_PHASE_1"
             ELSE IF HasWord(arg_account_name, {"1 Step", "ONE STEP"})
             THEN "ONE_STEP"
             ELSE IF HasWord(arg_account_name,
                             {"Phase 2", "step 2", "PHASE TWO"})
             THEN "TWO_STEP_PHASE_2"
             ELSE "TWO_STEP_PHASE_1"

\* A two-step key decides although the name says both "1 step" and
\* "phase 2".
C16_Witness ==
    /\ pc = "done"
    /\ HasWord(arg_credential_key, {"2Step"})
    /\ ~HasWord(arg_credential_key, {"1step", "1STEP"})
    /\ HasWord(arg_account_name, {"1 Step"})
    /\ HasWord(arg_account_name, {"Phase 2"})
    /\ program_result = "TWO_STEP_PHASE_1"

---------------------------------------------------------------------------
(* Properties of the profitability counter *)

\* The sum of the numbers among the components of entry i.
RECURSIVE NumericSumUpTo(_, _)
NumericSumUpTo(i, k) ==
    IF k = 0 THEN 0
    ELSE NumericSumUpTo(i, k - 1)
         + (IF arg_profit_chart[i].y[k] = None THEN 0
            ELSE arg_profit_chart[i].y[k][1])

\* The entries whose numbers add up to 1.5% of the initial balance or more.
ProfitableEntries ==
    { i \in 1 .. Len(arg_profit_chart) :
        NumericSumUpTo(i, Len(arg_profit_chart[i].y)) * 1000
            >= arg_initial_balance * 15 }

\* C19: the counter returns the number of entries whose numeric components
\* sum to at least initial_balance * 0.015, wherever they stand in the
\* list, and 0 when the initial balance is not positive or the list is
\* empty.
C19_CountsEntriesAtOrAboveThreshold ==
    pc = "done" =>
        /\ profitable_days_result =
               Some(IF arg_initial_balance <= 0 THEN 0
                    ELSE Cardinality(ProfitableEntries))
        /\ arg_profit_chart = <<>> => profitable_days_result = Some(0)

\* Two counted days around one that falls short, one of the counted days
\* exactly at the threshold thanks to ignoring a component that is no
\* number.
C19_Witness ==
    /\ pc = "done"
    /\ arg_initial_balance = 200
    /\ Len(arg_profit_chart) = 3
    /\ arg_profit_chart[1].y = <<Some(2), None, Some(1)>>
    /\ arg_profit_chart[2].y = <<Some(2)>>
    /\ arg_profit_chart[3].y = <<Some(4), Some(-1)>>
    /\ profitable_days_result = Some(2)

---------------------------------------------------------------------------
(* The daily-loss-limit check applied to a chart *)

InitDL ==
    /\ pc = "call"
    /\ arg_chart \in Charts
    /\ arg_initial_balance \in InitialBalances
    /\ arg_program = "TWO_STEP_PHASE_1"
    /\ arg_current_balance = 0
    /\ arg_current_equity = 0
    /\ arg_profit_chart = <<>>
    /\ arg_max_inactivity_days = RULES[arg_program].max_inactivity_days
    /\ dd_result = NoResult
    /\ inactivity_result = NoInactivity
    /\ evaluation = NoEvaluation
    /\ OthersUnset
    /\ ExtrasUnset

CallDailyLossLimit ==
    /\ pc = "call"
    /\ pc' = "done"
    /\ dl_result' = CheckDailyLossLimit(arg_chart,
                                        RULES[arg_program].daily_loss_limit,
                                        arg_initial_balance)
    /\ UNCHANGED <<arg_chart, arg_initial_balance, arg_program,
                   arg_current_balance, arg_current_equity, arg_profit_chart,
                   arg_max_inactivity_days, dd_result, inactivity_result,
                   evaluation, others, self_rules, calls, fresh_evaluation,
                   pipeline>>

NextDL == CallDailyLossLimit

SpecDL == InitDL /\ [][NextDL]_vars

---------------------------------------------------------------------------
(* Properties of the daily-loss-limit check (SpecDL) *)

\* The recorded days of the chart in order, and the samples of the i-th.
DLDates == SortedDates(ChartDays)

DLPoints(i) == GroupChartByDay(arg_chart)[DLDates[i]]

\* The lowest balance or equity among the samples of the i-th day.
DLLowest(i) ==
    LET seen == { DLPoints(i)[k].balance : k \in 1 .. Len(DLPoints(i)) }
                \cup { DLPoints(i)[k].equity : k \in 1 .. Len(DLPoints(i)) }
    IN  CHOOSE m \in seen : \A v \in seen : m <= v

\* The closing sample of the recorded day before the i-th.
DLPreviousClose(i) == DLPoints(i - 1)[Len(DLPoints(i - 1))]

\* Start values as stated: the previous recorded day's close, or the
\* initial balance on the first day.
DLStatedStart(i) ==
    IF i = 1
    THEN [balance |-> arg_initial_balance, equity |-> arg_initial_balance]
    ELSE [balance |-> DLPreviousClose(i).balance,
          equity |-> DLPreviousClose(i).equity]

\* Start values with the replacements the check makes: the first sample of
\* the day stands in for an initial balance that is not positive and for a
\* closing value of 0.
DLStart(i) ==
    LET first == DLPoints(i)[1]
    IN  IF i = 1
        THEN IF arg_initial_balance > 0
             THEN [balance |-> arg_initial_balance,
                   equity |-> arg_initial_balance]
             ELSE [balance |-> first.balance, equity |-> first.equity]
        ELSE [balance |-> IF DLPreviousClose(i).balance # 0
                          THEN DLPreviousClose(i).balance ELSE first.balance,
              equity |-> IF DLPreviousClose(i).equity # 0
                         THEN DLPreviousClose(i).equity ELSE first.equity]

DLReference(start) == Max2(start.balance, start.equity)

\* How far the day's lowest value lies below reference * (1 - limit),
\* times Scale.
DLShortfall(start, i) ==
    DLReference(start) * (Scale - RULES[arg_program].daily_loss_limit)
        - DLLowest(i) * Scale

DLStatedBreachDays ==
    { i \in 1 .. Len(DLDates) : DLShortfall(DLStatedStart(i), i) > 0 }

DLBreachDays ==
    { i \in 1 .. Len(DLDates) :
        DLReference(DLStart(i)) > 0 /\ DLShortfall(DLStart(i), i) > 0 }

\* No sample of the chart has a balance or an equity of 0.
DLNoZeroSample ==
    \A j \in 1 .. Len(arg_chart) :
        arg_chart[j].y[1] # 0 /\ arg_chart[j].y[2] # 0

\* C25 as stated: the check reports a breach exactly when some day's lowest
\* balance or equity is strictly below max(start balance, start equity) *
\* (1 - limit) with the start values being the previous recorded day's
\* close, or the initial balance on the first day, and the breach details
\* are those of a day with the largest shortfall.  Stated for charts
\* without a zero value, so a closing value of 0 plays no part.
C25_BreachIffBelowStatedStart ==
    pc = "done" /\ DLNoZeroSample =>
        /\ dl_result.is_breached <=> DLStatedBreachDays # {}
        /\ dl_result.is_breached =>
              \E i \in DLStatedBreachDays :
                  /\ dl_result.details.breach_date = DLDates[i]
                  /\ dl_result.details.breach_amount
                         = DLShortfall(DLStatedStart(i), i)
                  /\ \A j \in DLStatedBreachDays :
                        DLShortfall(DLStatedStart(j), j)
                            <= DLShortfall(DLStatedStart(i), i)

\* C25 as the check works: on the first day the start values are the
\* initial balance when it is positive and the day's first sample
\* otherwise; on a later day they are the previous recorded day's closing
\* balance and equity, a closing value of 0 replaced by the day's own first
\* sample; a day whose reference is not positive is skipped.  The check
\* reports a breach exactly when some other day's lowest balance or equity
\* is strictly below reference * (1 - limit), and the breach details are
\* those of the earliest day with the largest shortfall.
C25_BreachIffBelowStart ==
    pc = "done" =>
        /\ dl_result.is_breached <=> DLBreachDays # {}
        /\ dl_result.is_breached =>
              \E i \in DLBreachDays :
                  /\ \A j \in DLBreachDays :
                        \/ DLShortfall(DLStart(j), j)
                               < DLShortfall(DLStart(i), i)
                        \/ /\ DLShortfall(DLStart(j), j)
                                  = DLShortfall(DLStart(i), i)
                           /\ i <= j
                  /\ dl_result.details.breach_date = DLDates[i]
                  /\ dl_result.details.start_balance = DLStart(i).balance
                  /\ dl_result.details.start_equity = DLStart(i).equity
                  /\ dl_result.details.reference_value
                         = DLReference(DLStart(i))
                  /\ dl_result.details.worst_value = DLLowest(i)
                  /\ dl_result.details.breach_amount
                         = DLShortfall(DLStart(i), i)

\* Two days breach and the later one, measured against the earlier one's
\* close, has the larger shortfall: the details are the later day's.
C25_Witness ==
    /\ pc = "done"
    /\ dl_result.is_breached
    /\ Cardinality(DLBreachDays) >= 2
    /\ dl_result.details.breach_date # DLDates[1]
    /\ dl_result.details.start_equity = DLPreviousClose(2).equity
    /\ arg_initial_balance > 0

---------------------------------------------------------------------------
(* The inactivity detector under any limit *)

\* Values of max_inactivity_days: none allowed, one, and the catalog's.
InactivityLimits == {0, 1, 14}

InitInactivityLimits ==
    /\ pc = "call"
    /\ arg_chart \in ShortCharts
    /\ arg_initial_balance = 0
    /\ arg_program = "TWO_STEP_PHASE_1"
    /\ arg_current_balance = 0
    /\ arg_current_equity = 0
    /\ arg_profit_chart = <<>>
    /\ arg_max_inactivity_days \in InactivityLimits
    /\ dd_result = NoResult
    /\ inactivity_result = NoInactivity
    /\ evaluation = NoEvaluation
    /\ OthersUnset
    /\ ExtrasUnset

SpecInactivityLimits == InitInactivityLimits /\ [][NextInactivity]_vars

\* C26: a chart whose samples fall on fewer than two distinct UTC days is
\* never reported as an inactivity breach, whatever the limit (0 included)
\* and however many samples the single day has; the run it reports is 0.
C26_SingleDayNeverBreaches ==
    pc = "done" /\ Cardinality(ChartDays) < 2 =>
        /\ ~inactivity_result.is_breached
        /\ inactivity_result.max_consecutive = 0

\* Three samples of one day with the same equity, under the limit 0.
C26_Witness ==
    /\ pc = "done"
    /\ arg_max_inactivity_days = 0
    /\ Len(arg_chart) = MaxPoints
    /\ Cardinality(ChartDays) = 1
    /\ \A j \in 1 .. Len(arg_chart) : arg_chart[j].y = arg_chart[1].y
    /\ ~inactivity_result.is_breached

---------------------------------------------------------------------------
(* One object evaluating accounts one after the other *)

MaxCalls == 3

\* Charts of the accounts evaluated in a session.
SessionCharts ==
    { <<>> } \cup { << [x |-> 0, y |-> v] >> : v \in YValues \ { <<0, 0>> } }

\* balance.balance and balance.equity of their reports.
SessionCurrentValues == { <<200, 216>>, <<180, 200>> }

InitSession ==
    /\ pc = "call"
    /\ arg_chart = <<>>
    /\ arg_initial_balance = 0
    /\ arg_program = "TWO_STEP_PHASE_1"
    /\ arg_current_balance = 0
    /\ arg_current_equity = 0
    /\ arg_profit_chart = <<>>
    /\ arg_max_inactivity_days = RULES[arg_program].max_inactivity_days
    /\ dd_result = NoResult
    /\ inactivity_result = NoInactivity
    /\ evaluation = NoEvaluation
    /\ OthersUnset
    /\ ExtrasUnset

\* The next call of _evaluate_account on the same object, for any account,
\* and beside it the call on an object that has evaluated nothing before.
EvaluateNextAccount ==
    /\ calls < MaxCalls
    /\ pc' = "done"
    /\ calls' = calls + 1
    /\ arg_chart' \in SessionCharts
    /\ arg_initial_balance' \in InitialBalances
    /\ arg_program' \in Programs
    /\ \E cv \in SessionCurrentValues :
          arg_current_balance' = cv[1] /\ arg_current_equity' = cv[2]
    /\ arg_profit_chart' = << [y |-> <<3>>], [y |-> <<4, -1>>], [y |-> <<2, 2>>] >>
    /\ \E evaluated \in
              { [catalog \in {self_rules, RULES} |->
                    EvaluateWith(catalog, arg_chart', arg_chart', arg_chart',
                                 arg_program', arg_initial_balance',
                                 arg_current_balance', arg_current_equity',
                                 arg_profit_chart')] } :
          /\ evaluation' = evaluated[self_rules]
          /\ fresh_evaluation' = evaluated[RULES]
    /\ self_rules' = RulesAfterEvaluation(self_rules, arg_program',
                                          evaluation')
    /\ UNCHANGED <<arg_max_inactivity_days, dd_result, inactivity_result,
                   others, dl_result, pipeline>>

NextSession == EvaluateNextAccount

SpecSession == InitSession /\ [][NextSession]_vars

---------------------------------------------------------------------------
(* The pipeline: main and process_single_account (src/main.py) *)

MaxRuns == 2

MaxCredentials == 2

\* A boolean field of a credential: True, False, or not there.
Flags == {"true", "false", "absent"}

Logins == {1, 2}

\* The entries of the credentials arrays, in the order find() yields them.
Credentials == [loginId : Logins, isActive : Flags, isBreached : Flags]

\* cred.get(field, False) as a condition.
FlagSet(flag) == flag = "true"

\* get_active_credentials keeps a credential `if is_active and not
\* is_breached'.
IsSelected(cred) == FlagSet(cred.isActive) /\ ~FlagSet(cred.isBreached)

ActiveCredentials(creds) ==
    LET active == SelectSeq(creds, IsSelected)
    IN  [i \in 1 .. Len(active) |-> active[i].loginId]

\* Variant of FlagAfterUpdate that stores what the evaluation found.
FlagAfterUpdate_FromStatus(status) ==
    IF status = STATUS_BREACHED THEN "true" ELSE "false"

\* "credentials.$.isBreached": False
FlagAfterUpdate(status) == "false"

\* update_one on the first array element whose loginId matches.
UpdatedCredentials(creds, login, status) ==
    LET matching == { i \in 1 .. Len(creds) : creds[i].loginId = login }
        first == CHOOSE i \in matching : \A j \in matching : i <= j
    IN  IF matching = {} THEN creds
        ELSE [creds EXCEPT ![first].isBreached = FlagAfterUpdate(status)]

\* Variant of AfterSave in which the status update follows a failed save.
AfterSave_UpdateAnyway(outcome) == "update"

\* Where process_single_account goes on after insert_or_update_account:
\* the status update is the next statement of the same try block.
AfterSave(outcome) == IF outcome = "ok" THEN "update" ELSE "export"

\* Variant of AfterAccount in which a failed account ends the loop.
AfterAccount_StopOnFailure(success, i, n) ==
    IF success /\ i < n THEN "automate" ELSE "close"

\* Where main goes on after an account: the next account, or the end of
\* the loop.
AfterAccount(success, i, n) == IF i < n THEN "automate" ELSE "close"

\* What is known of an account being processed.
Started(login) ==
    [login |-> login, report |-> "none", parsed |-> "none", saved |-> "none",
     status |-> "", update |-> "none", returned |-> "pending"]

\* The variables the pipeline model leaves alone.
evaluator == <<arg_chart, arg_initial_balance, arg_program,
               arg_current_balance, arg_current_equity, arg_profit_chart,
               arg_max_inactivity_days, dd_result, inactivity_result,
               evaluation, others, dl_result, self_rules, calls,
               fresh_evaluation>>

InitMain ==
    /\ pc = "connect"
    /\ arg_chart = <<>>
    /\ arg_initial_balance = 0
    /\ arg_program = "TWO_STEP_PHASE_1"
    /\ arg_current_balance = 0
    /\ arg_current_equity = 0
    /\ arg_profit_chart = <<>>
    /\ arg_max_inactivity_days = RULES[arg_program].max_inactivity_days
    /\ dd_result = NoResult
    /\ inactivity_result = NoInactivity
    /\ evaluation = NoEvaluation
    /\ OthersUnset
    /\ dl_result = NoDailyLoss
    /\ self_rules = RULES
    /\ calls = 0
    /\ fresh_evaluation = <<>>
    /\ \E n \in 0 .. MaxCredentials : credentials \in [1 .. n -> Credentials]
    /\ accounts = <<>>
    /\ account_index = 0
    /\ results = NoResults
    /\ connection = "none"
    /\ trail = <<>>
    /\ runs = 1

\* main, lines 116-124: without a connection the run ends at once.
ConnectMongo ==
    /\ pc = "connect"
    /\ \E connected \in BOOLEAN :
          IF connected
          THEN pc' = "fetch" /\ connection' = "open"
          ELSE pc' = "finished" /\ connection' = connection
    /\ UNCHANGED <<credentials, accounts, account_index, results, trail,
                   runs, evaluator>>

\* main, lines 127-144: get_active_credentials, which returns [] when the
\* query or a credential's fields raise; with no account the connection is
\* closed and the run ends.
GetActiveCredentials ==
    /\ pc = "fetch"
    /\ \E fetched \in { ActiveCredentials(credentials), <<>> } :
          /\ accounts' = fetched
          /\ IF fetched = <<>>
             THEN /\ connection' = "closed"
                  /\ pc' = "finished"
                  /\ account_index' = 0
             ELSE /\ connection' = connection
                  /\ pc' = "automate"
                  /\ account_index' = 1
    /\ results' = NoResults
    /\ trail' = <<>>
    /\ UNCHANGED <<credentials, runs, evaluator>>

\* process_single_account returns and main files the login under success
\* or failed and goes on with the loop (lines 155-170).
Return(entry, success) ==
    /\ trail' = [trail EXCEPT ![Len(trail)] =
                    [entry EXCEPT !.returned =
                        IF success THEN "true" ELSE "false"]]
    /\ results' = IF success
                  THEN [results EXCEPT !.success = Append(@, entry.login)]
                  ELSE [results EXCEPT !.failed = Append(@, entry.login)]
    /\ pc' = AfterAccount(success, account_index, Len(accounts))
    /\ account_index' = IF pc' = "automate"
                        THEN account_index + 1 ELSE account_index

\* Lines 43-53: automate_mt5_report, which returns None instead of raising,
\* and the test for the report file.
AutomateReport ==
    /\ pc = "automate"
    /\ \E found \in BOOLEAN :
          LET entry == Started(accounts[account_index])
          IN  IF found
              THEN /\ trail' = Append(trail, [entry EXCEPT !.report = "found"])
                   /\ pc' = "parse"
                   /\ UNCHANGED <<results, account_index>>
              ELSE /\ \E appended \in { Append(trail, entry) } :
                         /\ trail' = [appended EXCEPT ![Len(appended)] =
                                        [entry EXCEPT !.report = "missing",
                                                      !.returned = "false"]]
                   /\ results' = [results EXCEPT
                                     !.failed = Append(@, entry.login)]
                   /\ pc' = AfterAccount(FALSE, account_index, Len(accounts))
                   /\ account_index' = IF pc' = "automate"
                                       THEN account_index + 1
                                       ELSE account_index
    /\ UNCHANGED <<credentials, accounts, connection, runs, evaluator>>

\* Lines 59-66: parse_mt5_report in its try block.
ParseReport ==
    /\ pc = "parse"
    /\ \E raises \in BOOLEAN :
          LET entry == trail[Len(trail)]
          IN  IF raises
              THEN Return([entry EXCEPT !.parsed = "raised"], FALSE)
              ELSE /\ trail' = [trail EXCEPT ![Len(trail)].parsed = "ok"]
                   /\ pc' = "save"
                   /\ UNCHANGED <<results, account_index>>
    /\ UNCHANGED <<credentials, accounts, connection, runs, evaluator>>

\* Lines 69-72 and 78-80: insert_or_update_account, which evaluates the
\* account and writes the document, or raises.
InsertOrUpdateAccount ==
    /\ pc = "save"
    /\ \E outcome \in {"ok", "raised"} :
       \E status \in {STATUS_ACTIVE, STATUS_BREACHED, STATUS_UNDER_REVIEW} :
          /\ outcome = "raised" => status = STATUS_ACTIVE
          /\ trail' = [trail EXCEPT
                          ![Len(trail)].saved = outcome,
                          ![Len(trail)].status =
                              IF outcome = "ok" THEN status ELSE ""]
          /\ pc' = AfterSave(outcome)
    /\ UNCHANGED <<credentials, accounts, account_index, results, connection,
                   runs, evaluator>>

\* Lines 75-76: update_credential_status, which returns False instead of
\* raising.
UpdateCredentialStatus ==
    /\ pc = "update"
    /\ \E modified \in BOOLEAN :
          LET entry == trail[Len(trail)]
          IN  /\ credentials' =
                     IF modified
                     THEN UpdatedCredentials(credentials, entry.login,
                                             entry.status)
                     ELSE credentials
              /\ trail' = [trail EXCEPT ![Len(trail)].update =
                              IF modified THEN "modified" ELSE "failed"]
    /\ pc' = "export"
    /\ UNCHANGED <<accounts, account_index, results, connection, runs,
                   evaluator>>

\* Lines 83-93: the optional JSON export in its try block, and return True.
ExportJson ==
    /\ pc = "export"
    /\ Return(trail[Len(trail)], TRUE)
    /\ UNCHANGED <<credentials, accounts, connection, runs, evaluator>>

\* Lines 172-175.
CloseConnection ==
    /\ pc = "close"
    /\ connection' = "closed"
    /\ pc' = "summary"
    /\ UNCHANGED <<credentials, accounts, account_index, results, trail,
                   runs, evaluator>>

\* Lines 177-198.
FinalSummary ==
    /\ pc = "summary"
    /\ pc' = "finished"
    /\ UNCHANGED <<credentials, accounts, account_index, results, connection,
                   trail, runs, evaluator>>

\* The pipeline is started again on the collection the run before left;
\* the history of that run is kept until the accounts are fetched.
StartNextRun ==
    /\ pc = "finished"
    /\ runs < MaxRuns
    /\ runs' = runs + 1
    /\ pc' = "connect"
    /\ connection' = "none"
    /\ accounts' = <<>>
    /\ account_index' = 0
    /\ results' = NoResults
    /\ UNCHANGED <<credentials, trail, evaluator>>

NextMain ==
    \/ ConnectMongo
    \/ GetActiveCredentials
    \/ AutomateReport
    \/ ParseReport
    \/ InsertOrUpdateAccount
    \/ UpdateCredentialStatus
    \/ ExportJson
    \/ CloseConnection
    \/ FinalSummary
    \/ StartNextRun

SpecMain == InitMain /\ [][NextMain]_vars

\* Every step of the pipeline ends: the waits are bounded sleeps.
SpecMainFair == SpecMain /\ WF_vars(NextMain)

---------------------------------------------------------------------------
(* Properties of the pipeline (SpecMain, SpecMainFair) *)

\* The run has fetched its accounts: trail and results are this run's.
Fetched == pc \notin {"connect", "fetch"} /\ connection # "none"

Elements(list) == { list[i] : i \in 1 .. Len(list) }

\* C27: the status update is attempted only for an account whose save
\* returned; a save that raised, or a status update that failed, leaves
\* the account returning True and listed under success; an account returns
\* False exactly when its report file was missing or parsing raised.
C27_OnlyReportOrParsingFails ==
    \A k \in 1 .. Len(trail) :
        LET entry == trail[k]
        IN  /\ entry.update # "none" => entry.saved = "ok"
            /\ entry.saved # "none" =>
                  entry.report = "found" /\ entry.parsed = "ok"
            /\ entry.returned = "false"
                  <=> (entry.report = "missing" \/ entry.parsed = "raised")
            /\ entry.returned # "pending"
                  /\ (entry.saved = "raised" \/ entry.update = "failed")
                  => /\ entry.returned = "true"
                     /\ Fetched => entry.login \in Elements(results.success)

\* One account whose save raised and one whose status update failed, both
\* under success.
C27_Witness ==
    /\ Fetched
    /\ Len(trail) = 2
    /\ trail[1].saved = "raised" /\ trail[1].update = "none"
    /\ trail[2].saved = "ok" /\ trail[2].update = "failed"
    /\ results.success = <<trail[1].login, trail[2].login>>
    /\ results.failed = <<>>

\* The logins of the accounts that returned `returned', in the order they
\* were processed.
LoginsReturned(returned) ==
    LET chosen == SelectSeq(trail, LAMBDA entry : entry.returned = returned)
    IN  [i \in 1 .. Len(chosen) |-> chosen[i].login]

DistinctLogins ==
    \A i, j \in 1 .. Len(accounts) : accounts[i] = accounts[j] => i = j

\* The accounts are taken one at a time in list order, each once, and each
\* login goes to one of the two lists; the connection is closed only when
\* every account has returned.
ProcessedInOrder ==
    Fetched =>
        /\ Len(trail) <= Len(accounts)
        /\ \A k \in 1 .. Len(trail) :
              /\ trail[k].login = accounts[k]
              /\ k < Len(trail) => trail[k].returned # "pending"
        /\ results.success = LoginsReturned("true")
        /\ results.failed = LoginsReturned("false")
        /\ Len(results.success) + Len(results.failed)
              = Cardinality({ k \in 1 .. Len(trail) :
                                trail[k].returned # "pending" })
        /\ DistinctLogins =>
              Elements(results.success) \cap Elements(results.failed) = {}
        /\ connection = "closed" =>
              /\ Len(trail) = Len(accounts)
              /\ \A k \in 1 .. Len(trail) : trail[k].returned # "pending"
              /\ Elements(results.success) \cup Elements(results.failed)
                    = Elements(accounts)
        /\ pc \in {"summary", "finished"} => connection = "closed"

\* C28 as stated: every fetched account is processed once, in list order,
\* and filed under exactly one of success and failed, the connection is
\* closed only after the last account, and every run that fetches its
\* accounts reaches the final summary.
C28_EveryRunReachesSummary ==
    /\ []ProcessedInOrder
    /\ (pc = "fetch") ~> (pc = "summary")

\* C28 as the pipeline works: the same, but the final summary is reached
\* by the runs that fetched at least one account; a run that fetched none
\* closes the connection and ends without a summary.
C28_RunWithAccountsReachesSummary ==
    /\ []ProcessedInOrder
    /\ [](Fetched /\ accounts = <<>> => pc = "finished"
                                         /\ connection = "closed")
    /\ (pc = "automate") ~> (pc = "summary")

\* Two accounts, the first failed and the second succeeded, at the summary.
C28_Witness ==
    /\ pc = "summary"
    /\ connection = "closed"
    /\ Len(accounts) = 2
    /\ results.failed = <<accounts[1]>>
    /\ results.success = <<accounts[2]>>

\* C29: no step of the pipeline sets an isBreached flag to true; a status
\* update that modified the collection leaves the flag of the credential
\* it matched at false whatever status was evaluated; and the fetch of the
\* next run returns every account that the run before saved as BREACHED.
C29_BreachedAccountFetchedAgain ==
    [][ /\ Len(credentials') = Len(credentials)
        /\ \A i \in 1 .. Len(credentials) :
              /\ credentials'[i].isBreached = "true"
                    => credentials[i].isBreached = "true"
              /\ credentials'[i].isActive = credentials[i].isActive
        /\ pc = "update" /\ trail'[Len(trail')].update = "modified" =>
              \E i \in 1 .. Len(credentials) :
                  /\ credentials[i].loginId = trail[Len(trail)].login
                  /\ credentials'[i].isBreached = "false"
        /\ pc = "fetch" /\ accounts' # <<>> =>
              /\ accounts' = ActiveCredentials(credentials)
              /\ \A k \in 1 .. Len(trail) :
                    trail[k].status = STATUS_BREACHED
                        => trail[k].login \in Elements(accounts')
      ]_vars

\* The second run is about to fetch its accounts, and an account that the
\* first run saved as BREACHED, and whose flag its status update wrote, is
\* among those the fetch selects.
C29_Witness ==
    /\ runs = 2
    /\ pc = "fetch"
    /\ \E k \in 1 .. Len(trail) :
          /\ trail[k].status = STATUS_BREACHED
          /\ trail[k].update = "modified"
          /\ trail[k].login \in Elements(ActiveCredentials(credentials))

====
